---- MODULE Spec2Model ----
(***************************************************************************)
(* Model of execute_4step_process.py: the 4-step MDM requirements          *)
(* pipeline (extract -> map/consolidate -> design model -> diagrams).      *)
(*                                                                         *)
(* Text is modelled at word level: a cell is a sequence of words that the  *)
(* program joins with single blanks.  Character-level operations of the    *)
(* program (substring tests, find(), slices [:200], regular expressions)   *)
(* are computed from the word lengths and from the tables of proper        *)
(* substrings of the vocabulary below.                                     *)
(***************************************************************************)
EXTENDS Integers, Sequences, FiniteSets, TLC

\* Largest number of rows of the 'Functional Requirements' sheet explored.
MaxRows == 3

(***************************************************************************)
(* Vocabulary of the explored sheets                                       *)
(***************************************************************************)
\* The words of the explored sheets that match r'\b([A-Z][a-z]+)\b'; the
\* other words are company, customers, dba, email, has, industry, multiple,
\* nan, person, product, sector, soap, synchronization, workday.
CapitalizedVocabulary ==
    {"Address", "Banner", "Customer", "Status", "Vendor", "Workday"}

\* str.lower() on one word
LowerWord(w) ==
    CASE w = "Address" -> "address"
      [] w = "Banner" -> "banner"
      [] w = "Customer" -> "customer"
      [] w = "Status" -> "status"
      [] w = "Vendor" -> "vendor"
      [] w = "Workday" -> "workday"
      [] OTHER -> w

\* len() of one word
WordLen(w) ==
    CASE w \in {"dba", "has", "nan", "per"} -> 3
      [] w \in {"soap"} -> 4
      [] w \in {"email"} -> 5
      [] w \in {"Banner", "Status", "Vendor", "banner", "status", "vendor",
                "person", "sector"} -> 6
      [] w \in {"Address", "address", "company", "product", "Workday",
                "workday"} -> 7
      [] w \in {"Customer", "customer", "industry", "multiple"} -> 8
      [] w \in {"customers"} -> 9
      [] w \in {"synchronization"} -> 15

\* <<n, h, k>>: n is a proper substring of the vocabulary word h, first at
\* character offset k
ProperSubstr == {<<"customer", "customers", 0>>, <<"per", "person", 0>>}
\* <<n, h>>: n is a proper prefix / proper suffix of the vocabulary word h
ProperPrefix == {<<"customer", "customers">>, <<"per", "person">>}
ProperSuffix == {}

\* n in h, for one word h
SubStr(n, h) == n = h \/ \E t \in ProperSubstr : t[1] = n /\ t[2] = h
\* h.find(n) for one word h with n in h
FindInWord(n, h) ==
    IF n = h THEN 0 ELSE (CHOOSE t \in ProperSubstr : t[1] = n /\ t[2] = h)[3]
StartsWith(h, n) == n = h \/ <<n, h>> \in ProperPrefix
EndsWith(h, n) == n = h \/ <<n, h>> \in ProperSuffix

Min(a, b) == IF a < b THEN a ELSE b

\* str.lower() on a text
Lower(text) == [i \in 1..Len(text) |-> LowerWord(text[i])]

\* len() of a text: the words and the single blanks between them
RECURSIVE CharLen(_)
CharLen(text) ==
    IF text = <<>> THEN 0
    ELSE IF Len(text) = 1 THEN WordLen(text[1])
    ELSE WordLen(text[1]) + 1 + CharLen(Tail(text))

\* character offset at which word i of the text starts
CharStart(text, i) == IF i = 1 THEN 0 ELSE CharLen(SubSeq(text, 1, i - 1)) + 1

\* `keyword in text' for a one-word needle (str.__contains__)
Contains(n, text) == \E i \in 1..Len(text) : SubStr(n, text[i])

\* text.find(n) for a one-word needle contained in the text
Find(n, text) ==
    LET i == CHOOSE i \in 1..Len(text) :
                 /\ SubStr(n, text[i])
                 /\ \A j \in 1..(i - 1) : ~SubStr(n, text[j])
    IN  CharStart(text, i) + FindInWord(n, text[i])

\* `keyword in text' for a keyword of one or more words
KeywordIn(kw, text) ==
    IF Len(kw) = 1 THEN Contains(kw[1], text)
    ELSE \E i \in 1..(Len(text) - Len(kw) + 1) :
            /\ EndsWith(text[i], kw[1])
            /\ \A j \in 2..(Len(kw) - 1) : text[i + j - 1] = kw[j]
            /\ StartsWith(text[i + Len(kw) - 1], kw[Len(kw)])

(***************************************************************************)
(* OOTB definitions                                                        *)
(***************************************************************************)
OOTB_ENTITIES ==
    [Person |-> [standard_fields |->
        <<"FirstName", "LastName", "MiddleName", "NamePrefix", "NameSuffix",
          "FullName", "DateOfBirth", "Gender", "MaritalStatus",
          "SSN", "TaxID", "PreferredLanguage", "DeceasedDate", "DeceasedFlag">>],
     Organization |-> [standard_fields |->
        <<"OrganizationName", "LegalName", "DBA", "TaxID", "EIN",
          "OrganizationType", "Industry", "Status", "FoundedDate",
          "Website", "Description">>],
     Product |-> [standard_fields |->
        <<"ProductName", "ProductCode", "SKU", "Description",
          "Category", "Brand", "Status", "Price", "UnitOfMeasure">>]]

OOTB_FIELD_GROUPS ==
    [Address |-> [standard_fields |->
        <<"AddressLine1", "AddressLine2", "City", "State", "PostalCode",
          "Country", "AddressType", "PrimaryFlag", "StartDate", "EndDate",
          "County", "Region", "Latitude", "Longitude">>],
     Phone |-> [standard_fields |->
        <<"PhoneNumber", "PhoneType", "PrimaryFlag", "CountryCode",
          "AreaCode", "Extension", "StartDate", "EndDate", "DoNotCallFlag">>],
     Email |-> [standard_fields |->
        <<"EmailAddress", "EmailType", "PrimaryFlag", "StartDate", "EndDate",
          "DoNotEmailFlag", "BounceFlag">>],
     Identifier |-> [standard_fields |->
        <<"IdentifierValue", "IdentifierType", "PrimaryFlag", "Issuer",
          "StartDate", "EndDate", "VerificationStatus">>]]

\* field.lower() of the OOTB entity fields
LowerField(f) ==
    CASE f = "FirstName" -> "firstname" [] f = "LastName" -> "lastname"
      [] f = "MiddleName" -> "middlename" [] f = "NamePrefix" -> "nameprefix"
      [] f = "NameSuffix" -> "namesuffix" [] f = "FullName" -> "fullname"
      [] f = "DateOfBirth" -> "dateofbirth" [] f = "Gender" -> "gender"
      [] f = "MaritalStatus" -> "maritalstatus" [] f = "SSN" -> "ssn"
      [] f = "TaxID" -> "taxid"
      [] f = "PreferredLanguage" -> "preferredlanguage"
      [] f = "DeceasedDate" -> "deceaseddate"
      [] f = "DeceasedFlag" -> "deceasedflag"
      [] f = "OrganizationName" -> "organizationname"
      [] f = "LegalName" -> "legalname" [] f = "DBA" -> "dba"
      [] f = "EIN" -> "ein" [] f = "OrganizationType" -> "organizationtype"
      [] f = "Industry" -> "industry" [] f = "Status" -> "status"
      [] f = "FoundedDate" -> "foundeddate" [] f = "Website" -> "website"
      [] f = "Description" -> "description"

(***************************************************************************)
(* Generic helpers: sequences and insertion-ordered dicts                  *)
(***************************************************************************)
InSeq(x, s) == \E i \in 1..Len(s) : s[i] = x

\* a dict is the sequence of its [k, v] items in insertion order
DictHas(d, key) == \E i \in 1..Len(d) : d[i].k = key
DictGet(d, key) == d[CHOOSE i \in 1..Len(d) : d[i].k = key].v
DictSet(d, key, val) ==
    IF DictHas(d, key)
    THEN [i \in 1..Len(d) |-> IF d[i].k = key THEN [k |-> key, v |-> val] ELSE d[i]]
    ELSE Append(d, [k |-> key, v |-> val])
DictKeys(d) == [i \in 1..Len(d) |-> d[i].k]

(***************************************************************************)
(* The input sheet                                                         *)
(***************************************************************************)
\* A stretch of text of 13 * 16 - 1 = 207 characters that holds no term and no
\* cue: long enough to push what follows it out of a 200-character slice.
LongText == [i \in 1..13 |-> "synchronization"]

\* Rows of the sheet: fr is the 'FR #' cell ("" for an empty cell), desc the
\* 'Functional Requirements Description' cell, comments the 'Comments' cell
\* (<<>> for an empty cell, which pandas reads as NaN).
RowLibrary ==
    {[fr |-> "FR1", desc |-> <<"Customer", "Customer", "Customer", "person">>,
      comments |-> <<>>],
     [fr |-> "FR2", desc |-> <<"Vendor", "Vendor", "Vendor", "company", "dba">>,
      comments |-> <<>>],
     [fr |-> "", desc |-> <<"Customer", "company">>, comments |-> <<"industry">>],
     [fr |-> "FR4", desc |-> <<"multiple", "Address", "Address", "Address">>,
      comments |-> <<>>],
     [fr |-> "", desc |-> <<"Vendor", "Vendor", "Vendor", "product", "sector">>,
      comments |-> <<>>],
     [fr |-> "FR1", desc |-> <<"Status", "Status", "Status", "Banner", "Banner", "Banner">>,
      comments |-> <<>>],
     [fr |-> "FR7", desc |-> <<"Vendor", "Vendor", "Vendor">>, comments |-> <<>>],
     [fr |-> "FR8", desc |-> <<"Vendor", "has", "Address">>, comments |-> <<>>],
     [fr |-> "", desc |-> <<"multiple", "customers", "email">>, comments |-> <<>>],
     [fr |-> "FR10", desc |-> <<"multiple", "Vendor", "Vendor", "Vendor", "person">>,
      comments |-> <<>>],
     [fr |-> "FR11", desc |-> <<"multiple", "Vendor", "Vendor", "Vendor">> \o LongText
                              \o <<"email">>,
      comments |-> <<>>],
     [fr |-> "FR12", desc |-> <<"email">> \o LongText
                              \o <<"multiple", "Vendor", "Vendor", "Vendor">>,
      comments |-> <<>>],
     [fr |-> "FR13", desc |-> <<"Address", "Address", "Address", "workday">>,
      comments |-> <<>>],
     [fr |-> "FR14", desc |-> <<"Workday", "soap">>, comments |-> <<>>]}

Sheets == UNION {[1..n -> RowLibrary] : n \in 0..MaxRows}

\* str(row.get('Functional Requirements Description', '')) + ' ' +
\* str(row.get('Comments', '')): an empty Comments cell prints as 'nan'
RowText(row) ==
    row.desc \o (IF row.comments = <<>> THEN <<"nan">> ELSE row.comments)

\* f'FR{idx+1}'
PositionalId(idx) ==
    CASE idx = 0 -> "FR1" [] idx = 1 -> "FR2" [] idx = 2 -> "FR3"
      [] idx = 3 -> "FR4" [] idx = 4 -> "FR5" [] idx = 5 -> "FR6"
      [] OTHER -> "FRn"

\* the requirement record of row idx+1
Requirement(row, idx) ==
    [fr_number |-> IF row.fr # "" THEN row.fr ELSE PositionalId(idx),
     description |-> row.desc,
     comments |-> row.comments,
     combined_text |-> Lower(row.desc \o row.comments)]

functional_requirements(df) == [i \in 1..Len(df) |-> Requirement(df[i], i - 1)]

(***************************************************************************)
(* Step 1: term discovery                                                  *)
(***************************************************************************)
RECURSIVE all_text_original(_)
all_text_original(df) ==
    IF df = <<>> THEN <<>> ELSE RowText(Head(df)) \o all_text_original(Tail(df))

IsCapitalized(w) == w \in CapitalizedVocabulary

capitalized_words(df) == SelectSeq(all_text_original(df), IsCapitalized)

\* keys of a Counter: the distinct elements in order of first occurrence
RECURSIVE Distinct(_)
Distinct(s) ==
    IF s = <<>> THEN <<>>
    ELSE LET rest == Distinct(SubSeq(s, 1, Len(s) - 1))
             x == s[Len(s)]
         IN  IF InSeq(x, rest) THEN rest ELSE Append(rest, x)

Count(x, s) == Cardinality({i \in 1..Len(s) : s[i] = x})

exclude_words ==
    {"Solution", "System", "Data", "Record", "Information", "Field", "Attribute",
     "Value", "Type", "Status", "Date", "Number", "Code", "ID", "Key", "Source",
     "Target", "The", "This", "That", "These", "Those", "Each", "Every", "All",
     "Some", "Any", "Many", "More", "Most", "Such", "Which", "What", "When",
     "Where", "How", "Why", "Who", "Table", "Column", "Row", "Sheet", "File",
     "Document", "Report", "Format", "Structure", "Model", "Design", "Process",
     "Step", "Phase", "Feature", "Function", "Method", "Approach", "Integration"}

source_system_names ==
    {"Banner", "Workday", "Slate", "Salesforce", "SFAQ", "AffinaQuest",
     "IAM", "SF-STU", "Slack", "Snowflake", "Azure", "Reference", "Use"}

MinFrequency == 3

\* variant: the source-system names are not excluded
IsCandidate_SourcesKept(word, count, df) ==
    /\ count >= MinFrequency
    /\ word \notin exclude_words
    /\ Contains(LowerWord(word), Lower(all_text_original(df)))

\* the guard of the discovery loop
IsCandidate(word, count, df) ==
    /\ count >= MinFrequency
    /\ word \notin (exclude_words \cup source_system_names)
    /\ Contains(LowerWord(word), Lower(all_text_original(df)))

(***************************************************************************)
(* Step 1: contextual classification                                       *)
(***************************************************************************)
MultiplicityWords == {"multiple", "each", "per", "1-to-many", "one-to-many", "many"}
FieldGroupCues == {"address", "phone", "email", "e-mail", "telephone", "contact"}
PersonCues ==
    {"individual", "person", "people", "human", "citizen", "resident",
     "member", "participant"}
OrganizationCues ==
    {"company", "organization", "organisation", "institution", "corp",
     "corporation", "business", "firm", "enterprise"}
ProductCues ==
    {"product", "item", "goods", "merchandise", "commodity", "article", "sku"}
ContainmentWords == {"has", "have", "contains", "includes", "with"}

CueWindow == 200
ExcerptLen == 200
MaxContext == 3
PurposeLen == 150

\* re.search(r'\b(w1|w2|...)\s+\w*\s*' + re.escape(word_lower), text_lower)
PhraseBefore(words, word_lower, text_lower) ==
    \E i \in 1..Len(text_lower) :
        /\ text_lower[i] \in words
        /\ \/ i + 1 <= Len(text_lower) /\ SubStr(word_lower, text_lower[i + 1])
           \/ i + 2 <= Len(text_lower) /\ StartsWith(text_lower[i + 2], word_lower)

\* re.search(r'\b(c1|c2|...)\b', text_lower)
CueIn(cues, text_lower) == \E i \in 1..Len(text_lower) : text_lower[i] \in cues

\* variant: the cue must lie within the CueWindow characters that precede the
\* term, i.e. between limit - 2 * CueWindow and limit - CueWindow
CueInSlice_Preceding(cues, text_lower, limit) ==
    \E j \in 1..Len(text_lower) :
        /\ text_lower[j] \in cues
        /\ CharStart(text_lower, j) >= limit - 2 * CueWindow
        /\ CharStart(text_lower, j) + WordLen(text_lower[j]) <= limit - CueWindow

\* re.search(r'\b(c1|c2|...)\b', text_lower[:limit])
CueInSlice(cues, text_lower, limit) ==
    \E j \in 1..Len(text_lower) :
        \/ /\ text_lower[j] \in cues
           /\ CharStart(text_lower, j) + WordLen(text_lower[j]) <= limit
        \/ \E p \in ProperPrefix :
              /\ p[1] \in cues
              /\ p[2] = text_lower[j]
              /\ CharStart(text_lower, j) + WordLen(p[1]) = limit

\* variant: the person cue is tested before the multiplicity phrase
RowRule_PersonFirst(word_lower, text_lower, entity_type) ==
    IF CueIn(PersonCues, text_lower) THEN "Person"
    ELSE IF PhraseBefore(MultiplicityWords, word_lower, text_lower)
    THEN IF CueInSlice(FieldGroupCues, text_lower, Find(word_lower, text_lower) + CueWindow)
         THEN "FieldGroup" ELSE "CustomFieldGroup"
    ELSE IF CueIn(OrganizationCues, text_lower) THEN "Organization"
    ELSE IF CueIn(ProductCues, text_lower) THEN "Product"
    ELSE IF PhraseBefore(ContainmentWords, word_lower, text_lower) THEN "CustomFieldGroup"
    ELSE entity_type

\* variant: a Person role assigned by an earlier row is kept against the
\* lower-precedence cues of a later row
RowRule_PersonKept(word_lower, text_lower, entity_type) ==
    IF PhraseBefore(MultiplicityWords, word_lower, text_lower)
    THEN IF CueInSlice(FieldGroupCues, text_lower, Find(word_lower, text_lower) + CueWindow)
         THEN "FieldGroup" ELSE "CustomFieldGroup"
    ELSE IF CueIn(PersonCues, text_lower) \/ entity_type = "Person" THEN "Person"
    ELSE IF CueIn(OrganizationCues, text_lower) THEN "Organization"
    ELSE IF CueIn(ProductCues, text_lower) THEN "Product"
    ELSE IF PhraseBefore(ContainmentWords, word_lower, text_lower) THEN "CustomFieldGroup"
    ELSE entity_type

\* the if/elif chain of one row containing the term: the role it assigns, or
\* entity_type unchanged when no branch assigns
RowRule(word_lower, text_lower, entity_type) ==
    IF PhraseBefore(MultiplicityWords, word_lower, text_lower)
    THEN IF CueInSlice(FieldGroupCues, text_lower,
                       Find(word_lower, text_lower) + CueWindow)
         THEN "FieldGroup"
         ELSE "CustomFieldGroup"
    ELSE IF CueIn(PersonCues, text_lower) THEN "Person"
    ELSE IF CueIn(OrganizationCues, text_lower) THEN "Organization"
    ELSE IF CueIn(ProductCues, text_lower) THEN "Product"
    ELSE IF PhraseBefore(ContainmentWords, word_lower, text_lower)
         THEN "CustomFieldGroup"
    ELSE entity_type

\* text[:ExcerptLen], kept as the text and the number of characters retained
Excerpt(text) == [text |-> text, len |-> Min(CharLen(text), ExcerptLen)]

\* s == e, for a text s and an excerpt e
EqualsExcerpt(s, e) ==
    /\ CharLen(s) = e.len
    /\ Len(s) <= Len(e.text)
    /\ \A i \in 1..(Len(s) - 1) : s[i] = e.text[i]
    /\ Len(s) > 0 => StartsWith(e.text[Len(s)], s[Len(s)])

\* text_lower in context
InContext(text_lower, context) ==
    \E i \in 1..Len(context) : EqualsExcerpt(text_lower, context[i])

\* variant: a role once assigned is kept, later rows only add context
RECURSIVE ClassifyRows_FirstWins(_, _, _, _, _)
ClassifyRows_FirstWins(df, i, word_lower, entity_type, context) ==
    IF i > Len(df) THEN [type |-> entity_type, context |-> context]
    ELSE LET text == RowText(df[i])
             text_lower == Lower(text)
         IN  IF Contains(word_lower, text_lower)
             THEN ClassifyRows_FirstWins(df, i + 1, word_lower,
                               IF entity_type # "" THEN entity_type
                               ELSE RowRule(word_lower, text_lower, entity_type),
                               IF ~InContext(text_lower, context)
                               THEN Append(context, Excerpt(text))
                               ELSE context)
             ELSE ClassifyRows_FirstWins(df, i + 1, word_lower, entity_type, context)

\* the loop over the rows, from row i on; entity_type "" is None
RECURSIVE ClassifyRows(_, _, _, _, _)
ClassifyRows(df, i, word_lower, entity_type, context) ==
    IF i > Len(df) THEN [type |-> entity_type, context |-> context]
    ELSE LET text == RowText(df[i])
             text_lower == Lower(text)
         IN  IF Contains(word_lower, text_lower)
             THEN ClassifyRows(df, i + 1, word_lower,
                               RowRule(word_lower, text_lower, entity_type),
                               IF ~InContext(text_lower, context)
                               THEN Append(context, Excerpt(text))
                               ELSE context)
             ELSE ClassifyRows(df, i + 1, word_lower, entity_type, context)

\* variant: an undetermined term always defaults to Person
FinalRole_PersonOnly(word_lower, entity_type) ==
    IF entity_type = "" THEN "Person" ELSE entity_type

\* the final classification of an undetermined term
FinalRole(word_lower, entity_type) ==
    IF entity_type = ""
    THEN IF word_lower \in FieldGroupCues THEN "FieldGroup" ELSE "Person"
    ELSE entity_type

\* the entities_found entry of a candidate term
Classify(word, count, df) ==
    LET r == ClassifyRows(df, 1, LowerWord(word), "", <<>>)
    IN  [word |-> word,
         type |-> FinalRole(LowerWord(word), r.type),
         context |-> SubSeq(r.context, 1, Min(Len(r.context), MaxContext)),
         frequency |-> count]

\* entities_found, in insertion order
entities_found(df) ==
    LET words == capitalized_words(df)
        keys == Distinct(words)
        IsCand(w) == IsCandidate(w, Count(w, words), df)
        cands == SelectSeq(keys, IsCand)
    IN  [i \in 1..Len(cands) |-> Classify(cands[i], Count(cands[i], words), df)]

(***************************************************************************)
(* Step 1: business entities                                               *)
(***************************************************************************)
\* variant: a sort that puts a later entry before earlier ones of equal frequency
RECURSIVE sorted_entities_Unstable(_)
sorted_entities_Unstable(found) ==
    IF found = <<>> THEN <<>>
    ELSE LET rest == sorted_entities_Unstable(SubSeq(found, 1, Len(found) - 1))
             x == found[Len(found)]
             pos == Cardinality({i \in 1..Len(rest) : rest[i].frequency > x.frequency})
         IN  SubSeq(rest, 1, pos) \o <<x>> \o SubSeq(rest, pos + 1, Len(rest))

\* sorted(entities_found.items(), key=frequency, reverse=True): stable
RECURSIVE sorted_entities(_)
sorted_entities(found) ==
    IF found = <<>> THEN <<>>
    ELSE LET rest == sorted_entities(SubSeq(found, 1, Len(found) - 1))
             x == found[Len(found)]
             pos == Cardinality({i \in 1..Len(rest) : rest[i].frequency >= x.frequency})
         IN  SubSeq(rest, 1, pos) \o <<x>> \o SubSeq(rest, pos + 1, Len(rest))

MasterTypes == {"Person", "Organization", "Product"}
EntityTypes == MasterTypes \cup {"FieldGroup", "CustomFieldGroup"}

\* len(' '.join(context))
RECURSIVE JoinedLen(_)
JoinedLen(context) ==
    IF context = <<>> THEN 0
    ELSE IF Len(context) = 1 THEN context[1].len
    ELSE context[1].len + 1 + JoinedLen(Tail(context))

\* the purpose inferred from the context: the context, the number of its
\* characters kept and whether '...' was appended; default is the name used
\* by the fallback sentence when the context is empty
Purpose(entity_info, canonical_name) ==
    IF JoinedLen(entity_info.context) > 0
    THEN [context |-> entity_info.context,
          len |-> Min(JoinedLen(entity_info.context), PurposeLen),
          ellipsis |-> JoinedLen(entity_info.context) > PurposeLen,
          default |-> ""]
    ELSE [context |-> <<>>, len |-> 0, ellipsis |-> FALSE, default |-> canonical_name]

\* the loop over sorted_entities from index i on
RECURSIVE BuildEntities(_, _, _, _)
BuildEntities(sorted, i, master_entity_types_found, acc) ==
    IF i > Len(sorted) THEN acc
    ELSE LET entity_info == sorted[i]
             entity_type == entity_info.type
             canonical_name == IF entity_type \in MasterTypes THEN entity_type
                               ELSE entity_info.word
         IN  IF entity_type \notin EntityTypes
             THEN BuildEntities(sorted, i + 1, master_entity_types_found, acc)
             ELSE IF entity_type \in MasterTypes /\ entity_type \in master_entity_types_found
             THEN BuildEntities(sorted, i + 1, master_entity_types_found, acc)
             ELSE BuildEntities(sorted, i + 1,
                      IF entity_type \in MasterTypes
                      THEN master_entity_types_found \cup {entity_type}
                      ELSE master_entity_types_found,
                      Append(acc, [name |-> canonical_name,
                                   type |-> entity_type,
                                   purpose |-> Purpose(entity_info, canonical_name)]))

business_entities(df) == BuildEntities(sorted_entities(entities_found(df)), 1, {}, <<>>)

(***************************************************************************)
(* Step 1: attribute pass                                                  *)
(***************************************************************************)
\* attr_name.replace('type', 'Type').replace('status', 'Status').title()
attr_display_name(attr_name) ==
    CASE attr_name = "classification" -> "Classification"
      [] attr_name = "employmentstatus" -> "Employmentstatus"
      [] attr_name = "roletype" -> "Roletype"
      [] attr_name = "relationshiptype" -> "Relationshiptype"
      [] attr_name = "organizationname" -> "Organizationname"
      [] attr_name = "legalname" -> "Legalname"
      [] attr_name = "dba" -> "Dba"
      [] attr_name = "ein" -> "Ein"
      [] attr_name = "organizationtype" -> "Organizationtype"
      [] attr_name = "industry" -> "Industry"
      [] attr_name = "website" -> "Website"
      [] attr_name = "foundeddate" -> "Foundeddate"
      [] attr_name = "description" -> "Description"
      [] attr_name = "status" -> "Status"

attribute_keywords ==
    << [k |-> "classification", v |-> << <<"classification">>, <<"classify">> >>],
       [k |-> "employmentstatus",
        v |-> << <<"full", "time">>, <<"part", "time">>, <<"employment", "status">>,
                 <<"employment", "type">>, <<"temp">>, <<"temporary">>, <<"permanent">> >>],
       [k |-> "roletype",
        v |-> << <<"role", "type">>, <<"role">>, <<"roletype">>, <<"position">> >>],
       [k |-> "relationshiptype",
        v |-> << <<"relationship", "type">>, <<"relationship">>,
                 <<"relationshiptype">>, <<"association">> >>],
       [k |-> "organizationname",
        v |-> << <<"organization", "name">>, <<"company", "name">>, <<"org", "name">> >>],
       [k |-> "legalname", v |-> << <<"legal", "name">>, <<"legal", "entity", "name">> >>],
       [k |-> "dba",
        v |-> << <<"dba">>, <<"doing", "business", "as">>, <<"trade", "name">> >>],
       [k |-> "ein", v |-> << <<"ein">>, <<"employer", "identification", "number">> >>],
       [k |-> "organizationtype",
        v |-> << <<"organization", "type">>, <<"org", "type">>, <<"entity", "type">> >>],
       [k |-> "industry", v |-> << <<"industry">>, <<"sector">> >>],
       [k |-> "website", v |-> << <<"website">>, <<"web", "site">>, <<"url">> >>],
       [k |-> "foundeddate",
        v |-> << <<"founded">>, <<"founded", "date">>, <<"established">>,
                 <<"established", "date">> >>],
       [k |-> "description", v |-> << <<"description">>, <<"desc">> >>],
       [k |-> "status", v |-> << <<"status">>, <<"active">>, <<"inactive">> >>] >>

\* any(keyword in combined_text for keyword in keywords)
AnyKeywordIn(keywords, combined_text) ==
    \E i \in 1..Len(keywords) : KeywordIn(keywords[i], combined_text)

\* variant: the id is appended without the test for an id already listed
RecordAttribute_Repeats(acc, fr, entry) ==
    IF AnyKeywordIn(entry.v, fr.combined_text)
    THEN LET name == attr_display_name(entry.k)
             old == IF DictHas(acc, name) THEN DictGet(acc, name) ELSE <<>>
         IN  DictSet(acc, name, Append(old, fr.fr_number))
    ELSE acc

\* the body of the inner loop for one requirement and one table entry
RecordAttribute(acc, fr, entry) ==
    IF AnyKeywordIn(entry.v, fr.combined_text)
    THEN LET name == attr_display_name(entry.k)
             old == IF DictHas(acc, name) THEN DictGet(acc, name) ELSE <<>>
         IN  DictSet(acc, name,
                     IF InSeq(fr.fr_number, old) THEN old ELSE Append(old, fr.fr_number))
    ELSE acc

\* the inner loop over attribute_keywords, from entry j on
RECURSIVE AttributesOfRequirement(_, _, _)
AttributesOfRequirement(acc, fr, j) ==
    IF j > Len(attribute_keywords) THEN acc
    ELSE AttributesOfRequirement(RecordAttribute(acc, fr, attribute_keywords[j]), fr, j + 1)

\* the outer loop over the requirements, from requirement i on
RECURSIVE AttributePass(_, _, _)
AttributePass(acc, frs, i) ==
    IF i > Len(frs) THEN acc
    ELSE AttributePass(AttributesOfRequirement(acc, frs[i], 1), frs, i + 1)

custom_attributes_with_fr(frs) == AttributePass(<<>>, frs, 1)

\* the display names in the order sorted() gives them
SortedNames ==
    <<"Classification", "Dba", "Description", "Ein", "Employmentstatus",
      "Foundeddate", "Industry", "Legalname", "Organizationname",
      "Organizationtype", "Relationshiptype", "Roletype", "Status", "Website">>

\* variant: the keys in insertion order
SortedKeys_AsInserted(d) == DictKeys(d)

\* sorted(d.keys())
SortedKeys(d) == LET Has(n) == DictHas(d, n) IN SelectSeq(SortedNames, Has)

\* fields of the Person template without the suppressed identifiers
PersonFieldsUsed ==
    LET Kept(f) == f \notin {"SSN", "TaxID"}
    IN  SelectSeq(OOTB_ENTITIES.Person.standard_fields, Kept)

\* first Person-type entity found, or default to Constituent
main_entity_name(entities) ==
    IF \E i \in 1..Len(entities) : entities[i].type = "Person"
    THEN entities[CHOOSE i \in 1..Len(entities) :
                     /\ entities[i].type = "Person"
                     /\ \A j \in 1..(i - 1) : entities[j].type # "Person"].name
    ELSE "Constituent"

(***************************************************************************)
(* Step 1: source pass and role pass                                       *)
(***************************************************************************)
\* known_sources, in the order of the dict; the keywords are lower case
known_sources ==
    << [k |-> "Banner", v |-> [connection_types |-> <<"JDBC", "jdbc">>,
                               keywords |-> << <<"banner">>, <<"ellucian", "banner">> >>]],
       [k |-> "Workday", v |-> [connection_types |-> <<"SOAP API", "SOAP", "soap">>,
                                keywords |-> << <<"workday">> >>]],
       [k |-> "Slate", v |-> [connection_types |-> <<"API", "api">>,
                              keywords |-> << <<"slate">> >>]],
       [k |-> "Salesforce", v |-> [connection_types |-> <<"API", "api">>,
                                   keywords |-> << <<"salesforce">>, <<"sf">> >>]],
       [k |-> "SFAQ", v |-> [connection_types |-> <<"API", "api">>,
                             keywords |-> << <<"sfaq">>, <<"affinaquest">> >>]],
       [k |-> "AffinaQuest", v |-> [connection_types |-> <<"API", "api">>,
                                    keywords |-> << <<"affinaquest">>, <<"sfaq">> >>]],
       [k |-> "IAM", v |-> [connection_types |-> <<"API", "Message Queue", "RabbitMQ">>,
                            keywords |-> << <<"iam">> >>]],
       [k |-> "SF-STU", v |-> [connection_types |-> <<"API", "api">>,
                               keywords |-> << <<"sf-stu">>, <<"sfstu">> >>]],
       [k |-> "Slack", v |-> [connection_types |-> <<"API", "api">>,
                              keywords |-> << <<"slack">> >>]],
       [k |-> "Snowflake", v |-> [connection_types |-> <<"Database", "database">>,
                                  keywords |-> << <<"snowflake">> >>]] >>

\* conn_type.lower(), as the words of the lowered string
LowerConnection(conn_type) ==
    CASE conn_type \in {"JDBC", "jdbc"} -> <<"jdbc">>
      [] conn_type = "SOAP API" -> <<"soap", "api">>
      [] conn_type \in {"SOAP", "soap"} -> <<"soap">>
      [] conn_type \in {"API", "api"} -> <<"api">>
      [] conn_type = "Message Queue" -> <<"message", "queue">>
      [] conn_type = "RabbitMQ" -> <<"rabbitmq">>
      [] conn_type \in {"Database", "database"} -> <<"database">>

\* the connection type extracted from the text of the row, or the first one
Connection(source_info, combined) ==
    LET types == source_info.connection_types
        Hit(t) == KeywordIn(LowerConnection(types[t]), Lower(combined))
    IN  IF \E t \in 1..Len(types) : Hit(t)
        THEN types[CHOOSE t \in 1..Len(types) :
                       Hit(t) /\ \A u \in 1..(t - 1) : ~Hit(u)]
        ELSE types[1]

\* variant: a later matching row replaces the finding of an earlier one
RECURSIVE SourcesOfRow_LastWins(_, _, _)
SourcesOfRow_LastWins(found, combined, j) ==
    IF j > Len(known_sources) THEN found
    ELSE SourcesOfRow_LastWins(
             IF AnyKeywordIn(known_sources[j].v.keywords, Lower(combined))
             THEN DictSet(found, known_sources[j].k,
                          [name |-> known_sources[j].k,
                           connection |-> Connection(known_sources[j].v, combined),
                           context |-> Excerpt(combined)])
             ELSE found,
             combined, j + 1)

\* the inner loop over known_sources for one row, from entry j on
RECURSIVE SourcesOfRow(_, _, _)
SourcesOfRow(found, combined, j) ==
    IF j > Len(known_sources) THEN found
    ELSE SourcesOfRow(
             IF /\ AnyKeywordIn(known_sources[j].v.keywords, Lower(combined))
                /\ ~DictHas(found, known_sources[j].k)
             THEN DictSet(found, known_sources[j].k,
                          [name |-> known_sources[j].k,
                           connection |-> Connection(known_sources[j].v, combined),
                           context |-> Excerpt(combined)])
             ELSE found,
             combined, j + 1)

\* the loop over the rows, from row i on
RECURSIVE SourcePass(_, _, _)
SourcePass(found, df, i) ==
    IF i > Len(df) THEN found
    ELSE SourcePass(SourcesOfRow(found, RowText(df[i]), 1), df, i + 1)

\* list(source_systems_found.values())
source_systems(df) ==
    LET found == SourcePass(<<>>, df, 1) IN [i \in 1..Len(found) |-> found[i].v]

role_keywords ==
    <<"student", "teacher", "staff", "manager", "employee", "contractor", "member",
      "customer", "supplier", "partner", "alumni", "donor", "prospect", "lead",
      "administrator", "user", "guest", "applicant">>

\* role_keyword.title()
RoleTitle(role_keyword) ==
    CASE role_keyword = "student" -> "Student"
      [] role_keyword = "teacher" -> "Teacher"
      [] role_keyword = "staff" -> "Staff"
      [] role_keyword = "manager" -> "Manager"
      [] role_keyword = "employee" -> "Employee"
      [] role_keyword = "contractor" -> "Contractor"
      [] role_keyword = "member" -> "Member"
      [] role_keyword = "customer" -> "Customer"
      [] role_keyword = "supplier" -> "Supplier"
      [] role_keyword = "partner" -> "Partner"
      [] role_keyword = "alumni" -> "Alumni"
      [] role_keyword = "donor" -> "Donor"
      [] role_keyword = "prospect" -> "Prospect"
      [] role_keyword = "lead" -> "Lead"
      [] role_keyword = "administrator" -> "Administrator"
      [] role_keyword = "user" -> "User"
      [] role_keyword = "guest" -> "Guest"
      [] role_keyword = "applicant" -> "Applicant"

RoleContextLen == 150
RolePurposeLen == 100

\* the inner loop over role_keywords for one row, from keyword j on
RECURSIVE RolesOfRow(_, _, _)
RolesOfRow(found, combined, j) ==
    IF j > Len(role_keywords) THEN found
    ELSE RolesOfRow(
             IF /\ Contains(role_keywords[j], combined)
                /\ ~DictHas(found, RoleTitle(role_keywords[j]))
             THEN DictSet(found, RoleTitle(role_keywords[j]),
                          [name |-> RoleTitle(role_keywords[j]),
                           context |-> [text |-> combined,
                                        len |-> Min(CharLen(combined), RoleContextLen)]])
             ELSE found,
             combined, j + 1)

\* the loop over the rows, from row i on
RECURSIVE RolePass(_, _, _)
RolePass(found, df, i) ==
    IF i > Len(df) THEN found
    ELSE RolePass(RolesOfRow(found, Lower(RowText(df[i])), 1), df, i + 1)

\* step1_output['roles']: the purpose is role['context'][:100] + '...'
roles(df) ==
    LET found == RolePass(<<>>, df, 1)
    IN  [i \in 1..Len(found) |->
            [name |-> found[i].v.name,
             purpose |-> [text |-> found[i].v.context.text,
                          len |-> Min(found[i].v.context.len, RolePurposeLen)]]]

\* set(custom_attributes_with_fr.keys())
custom_attributes_found(with_fr) == {with_fr[i].k : i \in 1..Len(with_fr)}

\* list(a_set): the elements in the order the set iterates them, which for a
\* set of strings depends on the hash seed of the run: any order
SetOrders(a_set) ==
    {order \in [1..Cardinality(a_set) -> a_set] :
        \A i, j \in 1..Cardinality(a_set) : i # j => order[i] # order[j]}

\* variant: the names are kept in the order the set iterated them
sorted_names_AsIterated(names) == names

\* sorted(names) for a list of display names
sorted_names(names) == LET Has(n) == InSeq(n, names) IN SelectSeq(SortedNames, Has)

\* step1_output['attributes']; found_order is list(custom_attributes_found)
Attributes(entities, with_fr, found_order) ==
    LET keys == SortedKeys(with_fr)
    IN  << [k |-> main_entity_name(entities),
            v |-> [standard |-> PersonFieldsUsed,
                   custom |-> sorted_names(found_order),
                   custom_with_fr |->
                       [i \in 1..Len(keys) |->
                           [k |-> keys[i], v |-> DictGet(with_fr, keys[i])]]]] >>

\* the document returned by step 1, the timestamp and the file name apart;
\* found_order is the order in which this run iterates custom_attributes_found
step1_extract_requirements(df, found_order) ==
    LET frs == functional_requirements(df)
        entities == business_entities(df)
    IN  [total_requirements |-> Len(df),
         functional_requirements |-> frs,
         business_entities |-> entities,
         attributes |-> Attributes(entities, custom_attributes_with_fr(frs),
                                   found_order),
         source_systems |-> source_systems(df),
         roles |-> roles(df)]

(***************************************************************************)
(* Step 2: consolidation into one OOTB entity                              *)
(***************************************************************************)
OfType(entities, types) ==
    LET Is(e) == e.type \in types IN SelectSeq(entities, Is)

\* variant: the list taken from step 1 is also extended in place with its own
\* ids (custom_fields_with_fr.setdefault(field_name, fr_list).extend(fr_list))
RECURSIVE MergeWithFr_Extend(_, _, _)
MergeWithFr_Extend(custom, items, i) ==
    IF i > Len(items) THEN custom
    ELSE MergeWithFr_Extend(IF items[i].v # <<>>
                            THEN DictSet(custom, items[i].k, items[i].v \o items[i].v)
                            ELSE custom,
                            items, i + 1)

\* custom_fields_with_fr[field_name] = fr_list for each justified item, from
\* item i on; the dict holds the list object of step 1, not a copy
RECURSIVE MergeWithFr(_, _, _)
MergeWithFr(custom, items, i) ==
    IF i > Len(items) THEN custom
    ELSE MergeWithFr(IF items[i].v # <<>>
                     THEN DictSet(custom, items[i].k, items[i].v)
                     ELSE custom,
                     items, i + 1)

\* backward-compatibility fallback: names of the custom list without FRs
RECURSIVE MergeCustomList(_, _, _)
MergeCustomList(custom, names, i) ==
    IF i > Len(names) THEN custom
    ELSE MergeCustomList(IF DictHas(custom, names[i]) THEN custom
                         ELSE DictSet(custom, names[i], <<>>),
                         names, i + 1)

\* variant: the custom list is taken without its FR references
RECURSIVE PersonCustomFields_NoFr(_, _, _, _)
PersonCustomFields_NoFr(custom, attributes, reqs, i) ==
    IF i > Len(reqs) THEN custom
    ELSE IF DictHas(attributes, reqs[i].name)
    THEN PersonCustomFields_NoFr(
             MergeCustomList(custom, DictGet(attributes, reqs[i].name).custom, 1),
             attributes, reqs, i + 1)
    ELSE PersonCustomFields_NoFr(custom, attributes, reqs, i + 1)

\* the loop over person_requirements of the Person branch, from index i on
RECURSIVE PersonCustomFields(_, _, _, _)
PersonCustomFields(custom, attributes, reqs, i) ==
    IF i > Len(reqs) THEN custom
    ELSE IF DictHas(attributes, reqs[i].name)
    THEN LET attrs_data == DictGet(attributes, reqs[i].name)
         IN  PersonCustomFields(
                 IF "custom_with_fr" \in DOMAIN attrs_data
                 THEN MergeWithFr(custom, attrs_data.custom_with_fr, 1)
                 ELSE MergeCustomList(custom, attrs_data.custom, 1),
                 attributes, reqs, i + 1)
    ELSE PersonCustomFields(custom, attributes, reqs, i + 1)

\* the loop over the requirements for one candidate field, from index i on
RECURSIVE JustifyField(_, _, _, _)
JustifyField(custom, field, frs, i) ==
    IF i > Len(frs) THEN custom
    ELSE IF Contains(LowerField(field), frs[i].combined_text)
    THEN LET old == IF DictHas(custom, field) THEN DictGet(custom, field) ELSE <<>>
         IN  JustifyField(DictSet(custom, field,
                                  IF InSeq(frs[i].fr_number, old) THEN old
                                  ELSE Append(old, frs[i].fr_number)),
                          field, frs, i + 1)
    ELSE JustifyField(custom, field, frs, i + 1)

field_mentioned(field, frs) ==
    \E i \in 1..Len(frs) : Contains(LowerField(field), frs[i].combined_text)

SkipMessage(field) == [kind |-> "Skipping", field |-> field]

\* the loop over the fields of the other template, from field j on; st is
\* the custom fields so far and the lines printed so far
RECURSIVE FoldOtherFields(_, _, _, _, _)
FoldOtherFields(st, fields, j, excluded, frs) ==
    IF j > Len(fields) THEN st
    ELSE IF fields[j] \in excluded
    THEN FoldOtherFields(st, fields, j + 1, excluded, frs)
    ELSE FoldOtherFields(
             [custom |-> JustifyField(st.custom, fields[j], frs, 1),
              printed |-> IF field_mentioned(fields[j], frs) THEN st.printed
                          ELSE Append(st.printed, SkipMessage(fields[j]))],
             fields, j + 1, excluded, frs)

SeqToSet(q) == {q[i] : i \in 1..Len(q)}

\* the loop over organization_requirements of the Person branch, from i on
RECURSIVE OrganizationIntoPerson(_, _, _, _, _)
OrganizationIntoPerson(st, step1_output, reqs, i, all_ootb_fields) ==
    IF i > Len(reqs) THEN st
    ELSE IF DictHas(step1_output.attributes, reqs[i].name)
    THEN LET attrs_data == DictGet(step1_output.attributes, reqs[i].name)
             merged == IF "custom_with_fr" \in DOMAIN attrs_data
                       THEN MergeWithFr(st.custom, attrs_data.custom_with_fr, 1)
                       ELSE st.custom
         IN  OrganizationIntoPerson(
                 FoldOtherFields([custom |-> merged, printed |-> st.printed],
                                 OOTB_ENTITIES.Organization.standard_fields, 1,
                                 {"TaxID"} \cup SeqToSet(all_ootb_fields),
                                 step1_output.functional_requirements),
                 step1_output, reqs, i + 1, all_ootb_fields)
    ELSE OrganizationIntoPerson(st, step1_output, reqs, i + 1, all_ootb_fields)

\* the loop over organization_requirements of the Organization branch
RECURSIVE OrganizationCustomFields(_, _, _, _)
OrganizationCustomFields(custom, attributes, reqs, i) ==
    IF i > Len(reqs) THEN custom
    ELSE IF DictHas(attributes, reqs[i].name)
    THEN LET attrs_data == DictGet(attributes, reqs[i].name)
         IN  OrganizationCustomFields(
                 IF "custom_with_fr" \in DOMAIN attrs_data
                 THEN MergeWithFr(custom, attrs_data.custom_with_fr, 1)
                 ELSE custom,
                 attributes, reqs, i + 1)
    ELSE OrganizationCustomFields(custom, attributes, reqs, i + 1)

\* variant: no default to Person when neither role was discovered
selected_ootb_entity_NoDefault(person_requirements, organization_requirements) ==
    IF person_requirements # <<>> THEN "Person"
    ELSE IF organization_requirements # <<>> THEN "Organization"
    ELSE ""

\* variant: Organization preferred over Person when both were discovered
selected_ootb_entity_OrgFirst(person_requirements, organization_requirements) ==
    IF organization_requirements # <<>> THEN "Organization" ELSE "Person"

\* the template choice: "Person", "Organization", or "" for None
selected_ootb_entity(person_requirements, organization_requirements) ==
    IF person_requirements # <<>>
       \/ (organization_requirements = <<>> /\ person_requirements = <<>>)
    THEN "Person"
    ELSE IF organization_requirements # <<>> THEN "Organization"
    ELSE ""

\* the consolidation: template, fields, custom fields, consolidated
\* requirements and the lines printed
Consolidate(step1_output) ==
    LET person_requirements == OfType(step1_output.business_entities, {"Person"})
        organization_requirements ==
            OfType(step1_output.business_entities, {"Organization"})
        selected == selected_ootb_entity(person_requirements, organization_requirements)
    IN  IF selected = "Person"
        THEN LET all_ootb_fields == PersonFieldsUsed
                 person == PersonCustomFields(<<>>, step1_output.attributes,
                                              person_requirements, 1)
                 st == IF organization_requirements # <<>>
                       THEN OrganizationIntoPerson(
                                [custom |-> person, printed |-> <<>>],
                                step1_output, organization_requirements, 1,
                                all_ootb_fields)
                       ELSE [custom |-> person, printed |-> <<>>]
             IN  [selected |-> selected,
                  all_ootb_fields |-> all_ootb_fields,
                  custom_fields_with_fr |-> st.custom,
                  all_requirements_consolidated |->
                      person_requirements \o organization_requirements,
                  printed |-> st.printed]
        ELSE IF selected = "Organization"
        THEN LET all_ootb_fields == OOTB_ENTITIES.Organization.standard_fields
                 org == OrganizationCustomFields(<<>>, step1_output.attributes,
                                                 organization_requirements, 1)
                 st == IF person_requirements # <<>>
                       THEN FoldOtherFields(
                                [custom |-> org, printed |-> <<>>],
                                OOTB_ENTITIES.Person.standard_fields, 1,
                                SeqToSet(all_ootb_fields),
                                step1_output.functional_requirements)
                       ELSE [custom |-> org, printed |-> <<>>]
             IN  [selected |-> selected,
                  all_ootb_fields |-> all_ootb_fields,
                  custom_fields_with_fr |-> st.custom,
                  all_requirements_consolidated |->
                      organization_requirements \o person_requirements,
                  printed |-> st.printed]
        ELSE [selected |-> "", all_ootb_fields |-> <<>>,
              custom_fields_with_fr |-> <<>>,
              all_requirements_consolidated |-> <<>>,
              printed |-> <<>>]

\* the requirements whose attributes the chosen branch looked up, in order
MergedRequirements(c) ==
    IF c.selected = "Person" THEN c.all_requirements_consolidated
    ELSE OfType(c.all_requirements_consolidated, {"Organization"})

\* custom_fields_with_fr[field] is the very list object that step 1 filed
\* under attributes[key]['custom_with_fr'][field]: key is the last looked-up
\* requirement whose attributes justify the field
SharedWith(step1_output, c, key, field) ==
    LET reqs == MergedRequirements(c)
        Gives(i) ==
            /\ DictHas(step1_output.attributes, reqs[i].name)
            /\ LET items == DictGet(step1_output.attributes, reqs[i].name).custom_with_fr
               IN  DictHas(items, field) /\ DictGet(items, field) # <<>>
    IN  \E i \in 1..Len(reqs) :
           /\ Gives(i)
           /\ reqs[i].name = key
           /\ \A j \in (i + 1)..Len(reqs) : ~Gives(j)

\* the step-1 document as step 2 leaves it: a list that step 2 holds by
\* reference shows whatever step 2 did to it
step1_output_after(step1_output, c) ==
    LET Seen(key, item) ==
            IF SharedWith(step1_output, c, key, item.k)
            THEN [k |-> item.k, v |-> DictGet(c.custom_fields_with_fr, item.k)]
            ELSE item
        Entry(e) ==
            [k |-> e.k,
             v |-> [e.v EXCEPT !.custom_with_fr =
                        [j \in 1..Len(e.v.custom_with_fr) |->
                            Seen(e.k, e.v.custom_with_fr[j])]]]
    IN  [step1_output EXCEPT !.attributes =
            [i \in 1..Len(step1_output.attributes) |->
                Entry(step1_output.attributes[i])]]

EntityNames(entities) == [i \in 1..Len(entities) |-> entities[i].name]

\* the single consolidated entity mapping
EntityMapping(c) ==
    [requirement |-> "Unified MDM Entity",
     ootb_entity |-> c.selected,
     ootb_fields_used |-> c.all_ootb_fields,
     custom_fields_needed |-> DictKeys(c.custom_fields_with_fr),
     custom_fields_with_fr |-> c.custom_fields_with_fr,
     consolidated_requirements |-> EntityNames(c.all_requirements_consolidated)]

\* the last-resort custom entity
CustomEntity(c) ==
    [type |-> "CustomEntity",
     name |-> "CustomMDMEntity",
     justification |-> "last resort",
     fields |-> c.all_ootb_fields \o DictKeys(c.custom_fields_with_fr)]

OOTBFieldGroupNames == {"Address", "Phone", "Email", "Identifier"}

\* variant: the mapping carries no custom field
FieldGroupMapping_NoKey(entity) ==
    [requirement |-> entity.name,
     ootb_field_group |-> entity.name,
     justification |-> entity.purpose,
     ootb_fields_used |-> OOTB_FIELD_GROUPS[entity.name].standard_fields,
     custom_fields_needed |-> <<>>]

\* the mapping of a discovered field group onto the OOTB group of its name
FieldGroupMapping(entity) ==
    [requirement |-> entity.name,
     ootb_field_group |-> entity.name,
     justification |-> entity.purpose,
     ootb_fields_used |-> OOTB_FIELD_GROUPS[entity.name].standard_fields,
     custom_fields_needed |-> <<"SourceSystemKey">>]

\* fields inferred from the name of a custom field group
CustomFieldGroupFields(fg_name) ==
    IF LowerWord(fg_name) = "role"
    THEN <<"RoleType", "RoleStatus", "StartDate", "EndDate", "SourceSystem",
           "SourceSystemKey">>
    ELSE IF SubStr("relationship", LowerWord(fg_name))
    THEN <<"RelatedConstituentId", "RelationshipType", "StartDate", "EndDate",
           "SourceSystem", "SourceSystemKey">>
    ELSE <<"Type", "Status", "StartDate", "EndDate", "SourceSystem",
           "SourceSystemKey">>

CustomFieldGroup(entity) ==
    [type |-> "CustomFieldGroup",
     name |-> entity.name,
     justification |-> entity.purpose,
     fields |-> CustomFieldGroupFields(entity.name)]

\* the loop over business_entities that maps the field groups, from i on
RECURSIVE MapFieldGroups(_, _, _)
MapFieldGroups(out, entities, i) ==
    IF i > Len(entities) THEN out
    ELSE LET entity == entities[i]
         IN  IF entity.type = "FieldGroup"
             THEN MapFieldGroups(
                      IF entity.name \in OOTBFieldGroupNames
                      THEN [out EXCEPT !.field_group_mappings =
                                Append(@, FieldGroupMapping(entity))]
                      ELSE out,
                      entities, i + 1)
             ELSE IF entity.type = "CustomFieldGroup"
             THEN MapFieldGroups(
                      [out EXCEPT !.custom_components =
                           Append(@, CustomFieldGroup(entity))],
                      entities, i + 1)
             ELSE MapFieldGroups(out, entities, i + 1)

WarningMessage == [kind |-> "WARNING", field |-> "CustomMDMEntity"]

\* the document returned by step 2, the timestamp apart, the lines it
\* printed, and its argument as the call leaves it
step2_map_ootb_entities(step1_output) ==
    LET c == Consolidate(step1_output)
        base == [entity_mappings |->
                     IF c.selected # "" THEN <<EntityMapping(c)>> ELSE <<>>,
                 field_group_mappings |-> <<>>,
                 gaps |-> <<>>,
                 custom_components |->
                     IF c.selected # "" THEN <<>> ELSE <<CustomEntity(c)>>]
    IN  [output |-> MapFieldGroups(base, step1_output.business_entities, 1),
         printed |-> IF c.selected # "" THEN c.printed
                     ELSE Append(c.printed, WarningMessage),
         step1_output |-> step1_output_after(step1_output, c)]

(***************************************************************************)
(* Step 3: model assembly, and step 4: diagrams                            *)
(***************************************************************************)
Identifiers(ootb_entity_name) ==
    CASE ootb_entity_name = "Person" -> <<"PersonId", "SSN", "TaxID">>
      [] ootb_entity_name = "Organization" -> <<"OrganizationId">>
      [] ootb_entity_name = "Product" -> <<"ProductId">>
      [] OTHER -> <<"Id">>

\* field groups from the step-2 mappings, without duplicates, from i on
RECURSIVE MappedFieldGroups(_, _, _)
MappedFieldGroups(groups, mappings, i) ==
    IF i > Len(mappings) THEN groups
    ELSE MappedFieldGroups(
             IF \E g \in 1..Len(groups) : groups[g].name = mappings[i].ootb_field_group
             THEN groups
             ELSE Append(groups, [name |-> mappings[i].ootb_field_group,
                                  type |-> "OOTB",
                                  ootb |-> mappings[i].ootb_fields_used,
                                  custom |-> mappings[i].custom_fields_needed]),
             mappings, i + 1)

\* the Identifier field group, added when no mapping supplied it
WithIdentifier(groups) ==
    IF \E g \in 1..Len(groups) : groups[g].name = "Identifier" THEN groups
    ELSE Append(groups, [name |-> "Identifier",
                         type |-> "OOTB",
                         ootb |-> OOTB_FIELD_GROUPS.Identifier.standard_fields,
                         custom |-> <<"SourceSystemKey">>])

\* variant: a custom field group is added whatever groups exist already
RECURSIVE WithCustomGroups_Unchecked(_, _, _)
WithCustomGroups_Unchecked(groups, components, i) ==
    IF i > Len(components) THEN groups
    ELSE WithCustomGroups_Unchecked(
             IF components[i].type = "CustomFieldGroup"
             THEN Append(groups, [name |-> components[i].name,
                                  type |-> "Custom",
                                  ootb |-> <<>>,
                                  custom |-> components[i].fields])
             ELSE groups,
             components, i + 1)

\* custom field groups from the step-2 custom components, from i on
RECURSIVE WithCustomGroups(_, _, _)
WithCustomGroups(groups, components, i) ==
    IF i > Len(components) THEN groups
    ELSE WithCustomGroups(
             IF /\ components[i].type = "CustomFieldGroup"
                /\ ~\E g \in 1..Len(groups) : groups[g].name = components[i].name
             THEN Append(groups, [name |-> components[i].name,
                                  type |-> "Custom",
                                  ootb |-> <<>>,
                                  custom |-> components[i].fields])
             ELSE groups,
             components, i + 1)

\* the document returned by step 3 (called with at least one entity mapping)
step3_design_data_model(step2_output) ==
    LET entity_mapping == step2_output.entity_mappings[1]
    IN  [entities |->
          << [name |-> entity_mapping.ootb_entity,
              original_name |-> entity_mapping.requirement,
              type |-> "OOTB",
              identifiers |-> Identifiers(entity_mapping.ootb_entity),
              attributes |-> [ootb |-> entity_mapping.ootb_fields_used,
                              custom |-> entity_mapping.custom_fields_needed,
                              custom_with_fr |-> entity_mapping.custom_fields_with_fr],
              field_groups |->
                  WithCustomGroups(
                      WithIdentifier(
                          MappedFieldGroups(<<>>, step2_output.field_group_mappings, 1)),
                      step2_output.custom_components, 1)] >>]

\* the document returned by step 4: one diagram per entity
step4_create_diagrams(step3_output) ==
    [diagrams_created |->
        [i \in 1..Len(step3_output.entities) |-> step3_output.entities[i].name]]

(***************************************************************************)
(* main: the four steps in sequence                                        *)
(***************************************************************************)
VARIABLES
    excel,          \* the input file: its sheet, its columns and its rows
    pc,             \* position of main: "step1".."step4", "complete", "exit1"
    step_outputs,   \* step number -> <<>> or <<the document the step returned>>
    files,          \* the files of the output directory
    printed,        \* the diagnostic lines printed by step 2
    failed_step     \* the step whose failure ended the run, 0 if none

vars == <<excel, pc, step_outputs, files, printed, failed_step>>

NoOutputs == [n \in 1..4 |-> <<>>]

\* STEP_WORKFLOW[n - 1]['input']
StepInput(n) ==
    CASE n = 1 -> "excel_file"
      [] n = 2 -> "step1_extracted_requirements.json"
      [] n = 3 -> "step2_ootb_mapping.json"
      [] n = 4 -> "step3_data_model.json"

\* the files step n writes: STEP_WORKFLOW[n - 1]['output'] and ['output_md']
StepFiles(n) ==
    CASE n = 1 -> {"step1_extracted_requirements.json", "step1_extracted_requirements.md"}
      [] n = 2 -> {"step2_ootb_mapping.json", "step2_ootb_mapping.md"}
      [] n = 3 -> {"step3_data_model.json", "step3_data_model.md"}
      [] n = 4 -> {"step4_diagrams"}

validate_step_input(n, present) ==
    StepInput(n) = "excel_file" \/ StepInput(n) \in present

\* the rows of a sheet that has no description column: row.get() gives ''
WithoutDescription(row) == [row EXCEPT !.desc = <<>>]
SheetsWithoutDescription ==
    UNION {[1..n -> {WithoutDescription(row) : row \in RowLibrary}] : n \in 0..MaxRows}

\* The input is a file with the sheet and its columns, or a file with the
\* sheet but no description column, or a file without the sheet.  The output
\* directory starts empty.
Init ==
    /\ excel \in {[has_sheet |-> TRUE, has_description |-> TRUE, rows |-> rows] :
                     rows \in Sheets}
                 \cup {[has_sheet |-> TRUE, has_description |-> FALSE, rows |-> rows] :
                          rows \in SheetsWithoutDescription}
                 \cup {[has_sheet |-> FALSE, has_description |-> FALSE, rows |-> <<>>]}
    /\ pc = "step1"
    /\ step_outputs = NoOutputs
    /\ files = {}
    /\ printed = <<>>
    /\ failed_step = 0

\* variant: the failure of step n is reported but the loop goes on
ExitFailure_Continues(n) ==
    /\ pc' = (CASE n = 1 -> "step2" [] n = 2 -> "step3" [] n = 3 -> "step4"
                [] OTHER -> "complete")
    /\ failed_step' = n
    /\ UNCHANGED <<step_outputs, files, printed>>

\* sys.exit(1) at step n, by a failed validation or by a raised exception
ExitFailure(n) ==
    /\ pc' = "exit1"
    /\ failed_step' = n
    /\ UNCHANGED <<step_outputs, files, printed>>

\* step 1 of the loop: read the sheet and extract; pd.read_excel raises on a
\* missing sheet
MainStep1 ==
    /\ pc = "step1"
    /\ IF ~validate_step_input(1, files) \/ ~excel.has_sheet
       THEN ExitFailure(1)
       ELSE \E found_order \in SetOrders(custom_attributes_found(
                   custom_attributes_with_fr(functional_requirements(excel.rows)))) :
               /\ step_outputs' = [step_outputs EXCEPT ![1] =
                      <<step1_extract_requirements(excel.rows, found_order)>>]
               /\ files' = files \cup StepFiles(1)
               /\ pc' = "step2"
               /\ UNCHANGED <<printed, failed_step>>
    /\ UNCHANGED excel

\* step 2 of the loop; the lists it shares with the step-1 document are
\* written through
MainStep2 ==
    /\ pc = "step2"
    /\ IF ~validate_step_input(2, files) \/ step_outputs[1] = <<>>
       THEN ExitFailure(2)
       ELSE LET r == step2_map_ootb_entities(step_outputs[1][1])
            IN  /\ step_outputs' = [step_outputs EXCEPT ![1] = <<r.step1_output>>,
                                                        ![2] = <<r.output>>]
                /\ printed' = printed \o r.printed
                /\ files' = files \cup StepFiles(2)
                /\ pc' = "step3"
                /\ UNCHANGED failed_step
    /\ UNCHANGED excel

\* variant: without entity mapping step 3 writes a model with no entity
MainStep3_EmptyModel ==
    /\ pc = "step3"
    /\ IF \/ ~validate_step_input(3, files)
          \/ step_outputs[2] = <<>>
          \/ "step1_extracted_requirements.json" \notin files
       THEN ExitFailure(3)
       ELSE /\ step_outputs' = [step_outputs EXCEPT
                   ![3] = IF step_outputs[2][1].entity_mappings = <<>>
                          THEN <<[entities |-> <<>>]>>
                          ELSE <<step3_design_data_model(step_outputs[2][1])>>]
            /\ files' = files \cup StepFiles(3)
            /\ pc' = "step4"
            /\ UNCHANGED <<printed, failed_step>>
    /\ UNCHANGED excel

\* step 3 of the loop: reads the step-1 file for the documentation, and
\* raises when step 2 produced no entity mapping
MainStep3 ==
    /\ pc = "step3"
    /\ IF \/ ~validate_step_input(3, files)
          \/ step_outputs[2] = <<>>
          \/ "step1_extracted_requirements.json" \notin files
          \/ step_outputs[2][1].entity_mappings = <<>>
       THEN ExitFailure(3)
       ELSE /\ step_outputs' = [step_outputs EXCEPT
                                   ![3] = <<step3_design_data_model(step_outputs[2][1])>>]
            /\ files' = files \cup StepFiles(3)
            /\ pc' = "step4"
            /\ UNCHANGED <<printed, failed_step>>
    /\ UNCHANGED excel

\* step 4 of the loop, then the summary
MainStep4 ==
    /\ pc = "step4"
    /\ IF ~validate_step_input(4, files) \/ step_outputs[3] = <<>>
       THEN ExitFailure(4)
       ELSE /\ step_outputs' = [step_outputs EXCEPT
                                   ![4] = <<step4_create_diagrams(step_outputs[3][1])>>]
            /\ files' = files \cup StepFiles(4)
            /\ pc' = "complete"
            /\ UNCHANGED <<printed, failed_step>>
    /\ UNCHANGED excel

Next == MainStep1 \/ MainStep2 \/ MainStep3 \/ MainStep4

Spec == Init /\ [][Next]_vars

(***************************************************************************)
(* step3_design_data_model on an arbitrary consolidation document: main at *)
(* step 3, with step_outputs[2] drawn from the documents below             *)
(***************************************************************************)
MaxEntityMappings == 2
MaxGroupMappings == 2
MaxComponents == 2

\* an entry of entity_mappings, with the keys step 3 reads
EntityMappingOn(ootb_entity) ==
    [requirement |-> "Unified MDM Entity",
     ootb_entity |-> ootb_entity,
     ootb_fields_used |-> OOTB_ENTITIES[ootb_entity].standard_fields,
     custom_fields_needed |-> <<"Industry">>,
     custom_fields_with_fr |-> <<[k |-> "Industry", v |-> <<"FR1">>]>>,
     consolidated_requirements |-> <<ootb_entity>>]

\* an entry of field_group_mappings, with the keys step 3 reads
GroupMappingOn(fg_name, custom) ==
    [requirement |-> fg_name,
     ootb_field_group |-> fg_name,
     justification |-> "",
     ootb_fields_used |-> OOTB_FIELD_GROUPS[fg_name].standard_fields,
     custom_fields_needed |-> custom]

\* an entry of custom_components, with the keys step 3 reads
ComponentOn(type, name) ==
    [type |-> type, name |-> name, justification |-> "",
     fields |-> CustomFieldGroupFields(name)]

EntityMappingLibrary == {EntityMappingOn("Person"), EntityMappingOn("Organization")}
GroupMappingLibrary ==
    {GroupMappingOn("Address", <<"SourceSystemKey">>),
     GroupMappingOn("Identifier", <<"SourceSystemKey">>),
     GroupMappingOn("Identifier", <<>>)}
ComponentLibrary ==
    {ComponentOn("CustomFieldGroup", "Vendor"),
     ComponentOn("CustomFieldGroup", "Identifier"),
     ComponentOn("CustomFieldGroup", "Address"),
     ComponentOn("CustomEntity", "CustomMDMEntity")}

SeqsUpTo(library, n) == UNION {[1..k -> library] : k \in 0..n}

ConsolidationDocuments ==
    {[entity_mappings |-> e, field_group_mappings |-> g, gaps |-> <<>>,
      custom_components |-> c] :
        e \in SeqsUpTo(EntityMappingLibrary, MaxEntityMappings),
        g \in SeqsUpTo(GroupMappingLibrary, MaxGroupMappings),
        c \in SeqsUpTo(ComponentLibrary, MaxComponents)}

\* main has run steps 1 and 2 and is about to call step 3 with step_outputs[2]
InitStep3 ==
    /\ excel = [has_sheet |-> TRUE, has_description |-> TRUE, rows |-> <<>>]
    /\ pc = "step3"
    /\ \E document \in ConsolidationDocuments :
           step_outputs = [NoOutputs EXCEPT
                              ![1] = <<step1_extract_requirements(excel.rows, <<>>)>>,
                              ![2] = <<document>>]
    /\ files = StepFiles(1) \cup StepFiles(2)
    /\ printed = <<>>
    /\ failed_step = 0

NextStep3 == MainStep3 \/ MainStep4

SpecStep3 == InitStep3 /\ [][NextStep3]_vars

(***************************************************************************)
(* Shorthands for the documents of a run                                   *)
(***************************************************************************)
Step1Done == step_outputs[1] # <<>>
Step2Done == step_outputs[2] # <<>>
step1_output == step_outputs[1][1]
step2_output == step_outputs[2][1]

HasType(entities, type) == \E i \in 1..Len(entities) : entities[i].type = type

(***************************************************************************)
(* Properties                                                              *)
(***************************************************************************)
\* C1: whatever step 1 discovered, the step-2 document has exactly one
\* entity mapping, and step 3 never fails in a run.
C1_ExactlyOneEntityMapping ==
    /\ Step2Done => Len(step2_output.entity_mappings) = 1
    /\ failed_step # 3

\* a run that discovered nothing got its entity mapping and passed step 3
C1_Witness ==
    /\ pc = "step4"
    /\ step1_output.business_entities = <<>>
    /\ Len(step2_output.entity_mappings) = 1

\* C2: every custom field of the consolidated entity mapping has at least
\* one justifying requirement id; the only custom field of the step-2
\* mappings without one is SourceSystemKey of the field-group mappings.
C2_NoUnjustifiedFields ==
    Step2Done =>
        /\ \A m \in 1..Len(step2_output.entity_mappings) :
              LET mapping == step2_output.entity_mappings[m]
              IN  /\ \A f \in 1..Len(mapping.custom_fields_needed) :
                        /\ DictHas(mapping.custom_fields_with_fr,
                                   mapping.custom_fields_needed[f])
                        /\ Len(DictGet(mapping.custom_fields_with_fr,
                                       mapping.custom_fields_needed[f])) >= 1
                  /\ \A f \in 1..Len(mapping.custom_fields_with_fr) :
                        Len(mapping.custom_fields_with_fr[f].v) >= 1
        /\ \A g \in 1..Len(step2_output.field_group_mappings) :
              step2_output.field_group_mappings[g].custom_fields_needed
                  = <<"SourceSystemKey">>

\* a consolidated mapping with custom fields next to a field-group mapping
C2_Witness ==
    /\ Step2Done
    /\ step2_output.entity_mappings[1].custom_fields_needed # <<>>
    /\ step2_output.field_group_mappings # <<>>

\* C3: the template is Person when a Person entity was discovered or when
\* neither Person nor Organization was; it is Organization exactly when an
\* Organization entity and no Person entity was discovered; never Product.
C3_TemplateChoice ==
    Step2Done /\ step2_output.entity_mappings # <<>> =>
        LET entities == step1_output.business_entities
            person == HasType(entities, "Person")
            organization == HasType(entities, "Organization")
            template == step2_output.entity_mappings[1].ootb_entity
        IN  /\ (person \/ (~person /\ ~organization)) => template = "Person"
            /\ template = "Organization" <=> (organization /\ ~person)
            /\ template # "Product"

\* Product is the only master entity discovered and the template is Person
C3_Witness ==
    /\ Step2Done
    /\ HasType(step1_output.business_entities, "Product")
    /\ ~HasType(step1_output.business_entities, "Person")
    /\ ~HasType(step1_output.business_entities, "Organization")
    /\ step2_output.entity_mappings[1].ootb_entity = "Person"

\* C4 (as stated): when step 1 discovered no business entity, step 2 produces
\* the synthetic custom entity (type CustomEntity, name CustomMDMEntity, a
\* last-resort justification) holding the template default fields plus the
\* custom attributes found.
C4_SyntheticEntityWhenNothingDiscovered ==
    Step2Done /\ step1_output.business_entities = <<>> =>
        \E c \in 1..Len(step2_output.custom_components) :
            LET component == step2_output.custom_components[c]
            IN  /\ component.type = "CustomEntity"
                /\ component.name = "CustomMDMEntity"
                /\ component.justification = "last resort"
                /\ component.fields =
                       <<"FirstName", "LastName", "MiddleName", "NamePrefix",
                         "NameSuffix", "FullName", "DateOfBirth", "Gender",
                         "MaritalStatus", "PreferredLanguage", "DeceasedDate",
                         "DeceasedFlag">>
                       \o step1_output.attributes[1].v.custom

\* C4 (amended): when step 1 discovered no business entity, step 2 produces
\* no synthetic custom entity; custom_components is empty and the single
\* entity mapping is on the Person template with the template default fields.
C4_PersonMappingWhenNothingDiscovered ==
    Step2Done /\ step1_output.business_entities = <<>> =>
        /\ step2_output.custom_components = <<>>
        /\ Len(step2_output.entity_mappings) = 1
        /\ step2_output.entity_mappings[1].ootb_entity = "Person"
        /\ step2_output.entity_mappings[1].ootb_fields_used =
               <<"FirstName", "LastName", "MiddleName", "NamePrefix",
                 "NameSuffix", "FullName", "DateOfBirth", "Gender",
                 "MaritalStatus", "PreferredLanguage", "DeceasedDate",
                 "DeceasedFlag">>

\* nothing was discovered in a sheet with rows, attributes were found, and
\* step 2 has run
C4_Witness ==
    /\ Step2Done
    /\ excel.rows # <<>>
    /\ step1_output.business_entities = <<>>
    /\ step1_output.attributes[1].v.custom # <<>>

\* the Organization fields that are candidates for folding into Person
OrganizationOnlyFields ==
    {f \in SeqToSet(OOTB_ENTITIES.Organization.standard_fields) :
        f \notin SeqToSet(OOTB_ENTITIES.Person.standard_fields)}

\* the Person fields that are candidates for folding into Organization
PersonOnlyFields ==
    {f \in SeqToSet(OOTB_ENTITIES.Person.standard_fields) :
        f \notin SeqToSet(OOTB_ENTITIES.Organization.standard_fields)}

\* ids of the requirements whose normalized text mentions the field
MentioningIds(field) ==
    LET frs == step1_output.functional_requirements
        Mentions(fr) == Contains(LowerField(field), fr.combined_text)
    IN  Distinct([i \in 1..Len(SelectSeq(frs, Mentions)) |->
                     SelectSeq(frs, Mentions)[i].fr_number])

\* C5: with the Person template and an Organization entity discovered, an
\* Organization field that is not a Person field is a custom field (with the
\* ids of the requirements mentioning it) iff some requirement text mentions
\* its name; an unmentioned one is left out and a skip diagnostic names it.
C5_OrganizationFieldsFoldedIfMentioned ==
    (/\ Step2Done
     /\ step2_output.entity_mappings # <<>>
     /\ step2_output.entity_mappings[1].ootb_entity = "Person"
     /\ HasType(step1_output.business_entities, "Organization")) =>
        \A f \in OrganizationOnlyFields :
            LET custom == step2_output.entity_mappings[1].custom_fields_with_fr
            IN  IF MentioningIds(f) # <<>>
                THEN DictHas(custom, f) /\ DictGet(custom, f) = MentioningIds(f)
                ELSE ~DictHas(custom, f) /\ InSeq(SkipMessage(f), printed)

\* C6: with the Organization template, a Person field that is not an
\* Organization field and is mentioned in no requirement text is not a custom
\* field and a skip diagnostic names it.
C6_UnmentionedPersonFieldsSkipped ==
    (/\ Step2Done
     /\ step2_output.entity_mappings # <<>>
     /\ step2_output.entity_mappings[1].ootb_entity = "Organization") =>
        \A f \in PersonOnlyFields :
            MentioningIds(f) = <<>> =>
                /\ ~InSeq(f, step2_output.entity_mappings[1].custom_fields_needed)
                /\ InSeq(SkipMessage(f), printed)

\* C7: every attribute recorded by the step-1 attribute pass is a custom
\* field of the consolidated mapping with the same requirement ids.
C7_AttributesCarriedOver ==
    Step2Done /\ step2_output.entity_mappings # <<>> =>
        LET recorded == custom_attributes_with_fr(step1_output.functional_requirements)
            custom == step2_output.entity_mappings[1].custom_fields_with_fr
        IN  \A a \in 1..Len(recorded) :
                /\ DictHas(custom, recorded[a].k)
                /\ DictGet(custom, recorded[a].k) = recorded[a].v

\* candidate c comes before candidate d in descending occurrence count, ties
\* by discovery order
Precedes(found, c, d) ==
    \/ found[c].frequency > found[d].frequency
    \/ found[c].frequency = found[d].frequency /\ c < d

\* C8: business_entities has at most one entity per master role; of the
\* candidates classified to a master role, the entity kept is the first in
\* descending occurrence count, ties broken by discovery order.
C8_OneEntityPerMasterRole ==
    Step1Done =>
        LET found == entities_found(excel.rows)
            entities == step1_output.business_entities
        IN  \A role \in MasterTypes :
                /\ Cardinality({e \in 1..Len(entities) : entities[e].type = role}) <= 1
                /\ \A c \in 1..Len(found) :
                       (/\ found[c].type = role
                        /\ \A d \in 1..Len(found) :
                               d # c /\ found[d].type = role => Precedes(found, c, d))
                       => \E e \in 1..Len(entities) :
                              /\ entities[e].type = role
                              /\ entities[e].name = role
                              /\ entities[e].purpose.context = found[c].context

\* two candidates with different contexts were classified to the same master
\* role, the later-discovered one with at least the count of the earlier
C8_Witness ==
    /\ Step1Done
    /\ LET found == entities_found(excel.rows)
       IN  \E c, d \in 1..Len(found) :
               /\ c < d
               /\ found[c].type = found[d].type
               /\ found[c].type \in MasterTypes
               /\ found[c].context # found[d].context
               /\ found[c].frequency = found[d].frequency

\* case-sensitive number of occurrences of a word in the texts of the rows
Occurrences(word, rows) ==
    LET positions == UNION {{<<i, j>> : j \in 1..Len(RowText(rows[i]))} :
                               i \in 1..Len(rows)}
    IN  Cardinality({p \in positions : RowText(rows[p[1]])[p[2]] = word})

\* C9: a capitalized term is a candidate iff it occurs at least 3 times
\* (case-sensitively) and is neither a noise word nor an external-source
\* name; every business entity stems from such a candidate.
C9_CandidateIffFrequentAndNotExcluded ==
    Step1Done =>
        LET found == entities_found(excel.rows)
            entities == step1_output.business_entities
            Qualifies(w) ==
                /\ Occurrences(w, excel.rows) >= 3
                /\ w \notin exclude_words
                /\ w \notin source_system_names
        IN  /\ \A w \in CapitalizedVocabulary :
                   (\E c \in 1..Len(found) : found[c].word = w) <=> Qualifies(w)
            /\ \A e \in 1..Len(entities) :
                   \E c \in 1..Len(found) :
                       /\ Qualifies(found[c].word)
                       /\ found[c].type = entities[e].type
                       /\ entities[e].type \notin MasterTypes
                              => entities[e].name = found[c].word

\* one sheet with a candidate, a frequent noise word, a frequent source name
\* and a term below the threshold
C9_Witness ==
    /\ Step1Done
    /\ step1_output.business_entities # <<>>
    /\ Occurrences("Status", excel.rows) >= 3
    /\ Occurrences("Banner", excel.rows) >= 3
    /\ \E w \in CapitalizedVocabulary : Occurrences(w, excel.rows) \in 1..2

\* the rows containing the term in which one of rules 1-5 fires
FiringRows(word, rows) ==
    {i \in 1..Len(rows) :
        /\ Contains(LowerWord(word), Lower(RowText(rows[i])))
        /\ RowRule(LowerWord(word), Lower(RowText(rows[i])), "") # ""}

RoleOfRow(word, rows, i) == RowRule(LowerWord(word), Lower(RowText(rows[i])), "")

\* C10 (as stated): the final role of a term is the role assigned by the
\* first row, in corpus order, in which one of rules 1-5 fires.
C10_FirstFiringRowWins ==
    Step1Done =>
        LET found == entities_found(excel.rows)
        IN  \A c \in 1..Len(found) :
                LET firing == FiringRows(found[c].word, excel.rows)
                IN  firing # {} =>
                        \E i \in firing :
                            /\ \A j \in firing : i <= j
                            /\ found[c].type = RoleOfRow(found[c].word, excel.rows, i)

\* C10 (amended): the final role of a term is the role assigned by the last
\* row, in corpus order, in which one of rules 1-5 fires; a rule firing in a
\* later row replaces the role assigned by an earlier row.
C10_LastFiringRowWins ==
    Step1Done =>
        LET found == entities_found(excel.rows)
        IN  \A c \in 1..Len(found) :
                LET firing == FiringRows(found[c].word, excel.rows)
                IN  firing # {} =>
                        \E i \in firing :
                            /\ \A j \in firing : j <= i
                            /\ found[c].type = RoleOfRow(found[c].word, excel.rows, i)

\* rules fire for one term in two rows that assign different roles
C10_Witness ==
    /\ Step1Done
    /\ LET found == entities_found(excel.rows)
       IN  \E c \in 1..Len(found) :
               \E i, j \in FiringRows(found[c].word, excel.rows) :
                   /\ i < j
                   /\ RoleOfRow(found[c].word, excel.rows, i)
                          # RoleOfRow(found[c].word, excel.rows, j)

\* the cue that decides row i for the term, by precedence: 1 the multiplicity
\* phrase before the term, 2 a person cue, 3 an organization cue, 4 a product
\* cue, 5 a containment verb before the term, 0 no cue
CueRank(word, rows, i) ==
    LET word_lower == LowerWord(word)
        text_lower == Lower(RowText(rows[i]))
    IN  IF PhraseBefore(MultiplicityWords, word_lower, text_lower) THEN 1
        ELSE IF CueIn(PersonCues, text_lower) THEN 2
        ELSE IF CueIn(OrganizationCues, text_lower) THEN 3
        ELSE IF CueIn(ProductCues, text_lower) THEN 4
        ELSE IF PhraseBefore(ContainmentWords, word_lower, text_lower) THEN 5
        ELSE 0

\* the roles that the cue of a given rank can give
RolesOfRank(rank) ==
    CASE rank = 1 -> {"FieldGroup", "CustomFieldGroup"}
      [] rank = 2 -> {"Person"}
      [] rank = 3 -> {"Organization"}
      [] rank = 4 -> {"Product"}
      [] rank = 5 -> {"CustomFieldGroup"}
      [] OTHER -> {}

\* the rows containing the term in which some cue decides
CueRows(word, rows) ==
    {i \in 1..Len(rows) :
        /\ Contains(LowerWord(word), Lower(RowText(rows[i])))
        /\ CueRank(word, rows, i) # 0}

\* C11 (as stated): across all rows containing a term, the final role is the
\* one given by the highest-precedence cue that fired in any row, whatever
\* the order of the rows.
C11_HighestPrecedenceCueWins ==
    Step1Done =>
        LET found == entities_found(excel.rows)
        IN  \A c \in 1..Len(found) :
                LET rows == CueRows(found[c].word, excel.rows)
                IN  rows # {} =>
                        \E i \in rows :
                            /\ \A j \in rows : CueRank(found[c].word, excel.rows, i)
                                                   <= CueRank(found[c].word, excel.rows, j)
                            /\ found[c].type = RoleOfRow(found[c].word, excel.rows, i)

\* C11 (amended): across all rows containing a term, the final role is one
\* that the cue deciding the last such row with a cue can give, whatever the
\* precedence of the cues that decided earlier rows: a lower-precedence cue
\* in a later row overrides a higher-precedence cue of an earlier row.
C11_CueOfLastRowWins ==
    Step1Done =>
        LET found == entities_found(excel.rows)
        IN  \A c \in 1..Len(found) :
                \A j \in CueRows(found[c].word, excel.rows) :
                    (\A i \in CueRows(found[c].word, excel.rows) : i <= j)
                        => found[c].type
                               \in RolesOfRank(CueRank(found[c].word, excel.rows, j))

\* a higher-precedence cue decides an earlier row and a lower-precedence cue
\* the last row of a term, and the two cues give different roles
C11_Witness ==
    /\ Step1Done
    /\ LET found == entities_found(excel.rows)
       IN  \E c \in 1..Len(found) :
               \E i, j \in CueRows(found[c].word, excel.rows) :
                   /\ i < j
                   /\ \A k \in CueRows(found[c].word, excel.rows) : k <= j
                   /\ CueRank(found[c].word, excel.rows, i)
                          < CueRank(found[c].word, excel.rows, j)
                   /\ RolesOfRank(CueRank(found[c].word, excel.rows, i))
                          \cap RolesOfRank(CueRank(found[c].word, excel.rows, j)) = {}
                   /\ found[c].type
                          \in RolesOfRank(CueRank(found[c].word, excel.rows, j))

\* the requirement records whose normalized text holds a keyword of the entry
MatchingRequirements(entry, frs) ==
    {f \in 1..Len(frs) : AnyKeywordIn(entry.v, frs[f].combined_text)}

\* C12: after the attribute pass every attribute of custom_with_fr has a
\* non-empty id list without a repeated id, each id is that of a requirement
\* whose normalized text contains a keyword of the attribute, and an attribute
\* that no requirement matches is not recorded.
C12_AttributesTraceable ==
    Step1Done =>
        LET frs == step1_output.functional_requirements
            items == step1_output.attributes[1].v.custom_with_fr
        IN  /\ \A a \in 1..Len(items) :
                   /\ items[a].v # <<>>
                   /\ \A m, n \in 1..Len(items[a].v) :
                          m # n => items[a].v[m] # items[a].v[n]
                   /\ \A n \in 1..Len(items[a].v) :
                          \E e \in 1..Len(attribute_keywords) :
                              /\ attr_display_name(attribute_keywords[e].k) = items[a].k
                              /\ \E f \in MatchingRequirements(attribute_keywords[e], frs) :
                                     frs[f].fr_number = items[a].v[n]
            /\ \A e \in 1..Len(attribute_keywords) :
                   MatchingRequirements(attribute_keywords[e], frs) = {}
                       => ~DictHas(items, attr_display_name(attribute_keywords[e].k))

\* an attribute is recorded for two requirements that carry the same id, and
\* another attribute of the table is matched by no requirement
C12_Witness ==
    /\ Step1Done
    /\ LET frs == step1_output.functional_requirements
           items == step1_output.attributes[1].v.custom_with_fr
       IN  /\ \E e \in 1..Len(attribute_keywords) :
                  /\ DictHas(items, attr_display_name(attribute_keywords[e].k))
                  /\ \E f, g \in MatchingRequirements(attribute_keywords[e], frs) :
                         f # g /\ frs[f].fr_number = frs[g].fr_number
           /\ \E e \in 1..Len(attribute_keywords) :
                  MatchingRequirements(attribute_keywords[e], frs) = {}

\* the orders in which a run on the sheet may iterate custom_attributes_found
IterationOrders(rows) ==
    SetOrders(custom_attributes_found(
                  custom_attributes_with_fr(functional_requirements(rows))))

\* C13: the extraction and the consolidation document of a run are the ones
\* of every other run on the same rows, timestamps apart: whatever order a
\* run iterates its set of attribute names in, step 1 and step 2 yield the
\* documents held by this run, content and order.
C13_DocumentsDeterminedByInput ==
    /\ Step1Done =>
           \A other \in IterationOrders(excel.rows) :
               step1_output = step1_extract_requirements(excel.rows, other)
    /\ Step2Done =>
           \A other \in IterationOrders(excel.rows) :
               step2_output = step2_map_ootb_entities(
                                  step1_extract_requirements(excel.rows, other)).output

\* step 2 has run on a sheet with two or more attribute names, whose set can
\* be iterated in more than one order
C13_Witness ==
    /\ Step2Done
    /\ Cardinality(IterationOrders(excel.rows)) >= 2
    /\ Len(step1_output.attributes[1].v.custom) >= 2
    /\ step2_output.entity_mappings # <<>>

\* C14: every requirement record has an id that is unique within the run: a
\* row without an identifier gets the positional id FR<row position + 1>, and
\* no two requirement records share an id, given or synthesized.
C14_RequirementIdsUnique ==
    Step1Done =>
        LET frs == step1_output.functional_requirements
        IN  /\ \A i \in 1..Len(frs) :
                   excel.rows[i].fr = "" => frs[i].fr_number = PositionalId(i - 1)
            /\ \A i, j \in 1..Len(frs) :
                   i # j => frs[i].fr_number # frs[j].fr_number

\* the step main is about to start, 0 once the loop is over
StepAt(position) ==
    CASE position = "step1" -> 1 [] position = "step2" -> 2
      [] position = "step3" -> 3 [] position = "step4" -> 4
      [] OTHER -> 0

\* C15: main runs the steps in the order 1, 2, 3, 4; step n+1 starts only
\* after step n has returned its document; when a step raises or its input
\* validation fails, no later step runs, the run ends with the failure status
\* and never reaches 'all steps complete'.
C15_StepsInOrderAndFailureStops ==
    /\ [](StepAt(pc) # 0 =>
             /\ failed_step = 0
             /\ \A n \in 1..4 : step_outputs[n] # <<>> <=> n < StepAt(pc))
    /\ [](pc = "complete" =>
             failed_step = 0 /\ \A n \in 1..4 : step_outputs[n] # <<>>)
    /\ [](failed_step # 0 =>
             /\ pc = "exit1"
             /\ \A n \in 1..4 : n >= failed_step => step_outputs[n] = <<>>)
    /\ [][/\ StepAt(pc) # 0
          /\ \/ /\ pc' = "exit1"
                /\ failed_step' = StepAt(pc)
                /\ step_outputs' = step_outputs
             \/ /\ StepAt(pc') = StepAt(pc) + 1 \/ (pc = "step4" /\ pc' = "complete")
                /\ step_outputs'[StepAt(pc)] # <<>>
                /\ \A n \in 1..4 : n > StepAt(pc) => step_outputs'[n] = <<>>]_vars

\* a run that failed in step 1, on a file without the sheet, and stopped
C15_Witness ==
    /\ pc = "exit1"
    /\ failed_step = 1
    /\ ~excel.has_sheet
    /\ \A n \in 1..4 : step_outputs[n] = <<>>

\* C16: an input without the expected sheet, or without an expected column
\* such as the description column, is fatal: step 1 aborts before any
\* discovery, classification or attribute extraction, and no extraction
\* document is produced.
C16_MissingSheetOrColumnIsFatal ==
    (~excel.has_sheet \/ ~excel.has_description) =>
        /\ pc \in {"step1", "exit1"}
        /\ step_outputs[1] = <<>>
        /\ "step1_extracted_requirements.json" \notin files

\* C17: no stage changes the output of an earlier stage: once a step has
\* returned its document, no later step of the run changes it, the id lists
\* that step 2 holds by reference included.
C17_EarlierDocumentsUntouched ==
    [][\A n \in 1..4 :
           step_outputs[n] # <<>> => step_outputs'[n] = step_outputs[n]]_vars

\* all four steps have run, and the step-2 mapping holds an id list of the
\* step-1 document by reference
C17_Witness ==
    /\ pc = "complete"
    /\ \E a \in 1..Len(step1_output.attributes) :
           \E j \in 1..Len(step1_output.attributes[a].v.custom_with_fr) :
               SharedWith(step1_output, Consolidate(step1_output),
                          step1_output.attributes[a].k,
                          step1_output.attributes[a].v.custom_with_fr[j].k)

\* C18: every discovered FieldGroup entity named Address, Phone, Email or
\* Identifier yields exactly one field-group mapping, whose OOTB fields are
\* the full standard field list of that group and whose custom fields are
\* exactly [SourceSystemKey].
C18_OneMappingPerOOTBFieldGroup ==
    Step2Done =>
        LET entities == step1_output.business_entities
            mappings == step2_output.field_group_mappings
        IN  \A e \in 1..Len(entities) :
                (/\ entities[e].type = "FieldGroup"
                 /\ entities[e].name \in {"Address", "Phone", "Email", "Identifier"})
                => /\ Cardinality({m \in 1..Len(mappings) :
                                      mappings[m].ootb_field_group = entities[e].name}) = 1
                   /\ \A m \in 1..Len(mappings) :
                          mappings[m].ootb_field_group = entities[e].name =>
                              /\ mappings[m].ootb_fields_used =
                                     OOTB_FIELD_GROUPS[entities[e].name].standard_fields
                              /\ mappings[m].custom_fields_needed = <<"SourceSystemKey">>

\* step 2 has run on a document with a FieldGroup entity named Address
C18_Witness ==
    /\ Step2Done
    /\ \E e \in 1..Len(step1_output.business_entities) :
           /\ step1_output.business_entities[e].type = "FieldGroup"
           /\ step1_output.business_entities[e].name = "Address"
    /\ step2_output.field_group_mappings # <<>>

\* the role a term has after the row loop has gone through row i alone,
\* coming in with the role before
RoleAfterRow(word, rows, i, before) ==
    ClassifyRows(<<rows[i]>>, 1, LowerWord(word), before, <<>>).type

\* C19: within one row containing the term, the role is assigned by the
\* first matching cue in the order field-group cue, person cue, organization
\* cue, product cue, containment cue, whatever lower-precedence cues the row
\* also holds and whatever role the term had before; a row in which no cue
\* matches leaves the role as it was.
C19_FirstMatchingCueDecidesRow ==
    Step1Done =>
        LET found == entities_found(excel.rows)
        IN  \A c \in 1..Len(found) :
                \A i \in 1..Len(excel.rows) :
                    Contains(LowerWord(found[c].word), Lower(RowText(excel.rows[i]))) =>
                        \A before \in {"", "Person", "Organization", "Product",
                                       "FieldGroup", "CustomFieldGroup"} :
                            LET rank == CueRank(found[c].word, excel.rows, i)
                                after == RoleAfterRow(found[c].word, excel.rows, i, before)
                            IN  IF rank = 0 THEN after = before
                                ELSE /\ after \in RolesOfRank(rank)
                                     /\ after = RoleAfterRow(found[c].word, excel.rows, i, "")

\* the last row with a cue for a term has the multiplicity phrase before the
\* term and the word 'person', and the term ends with a field-group role
C19_Witness ==
    /\ Step1Done
    /\ LET found == entities_found(excel.rows)
       IN  \E c \in 1..Len(found) :
               \E i \in CueRows(found[c].word, excel.rows) :
                   /\ \A j \in CueRows(found[c].word, excel.rows) : j <= i
                   /\ CueRank(found[c].word, excel.rows, i) = 1
                   /\ CueIn(PersonCues, Lower(RowText(excel.rows[i])))
                   /\ found[c].type \in {"FieldGroup", "CustomFieldGroup"}

\* the words of row i, lower case, that are address/phone/email/telephone/
\* contact cue words and lie wholly within the characters from..to of the row
CueWordsWithin(rows, i, from, to) ==
    LET text_lower == Lower(RowText(rows[i]))
    IN  {j \in 1..Len(text_lower) :
            /\ text_lower[j] \in {"address", "phone", "email", "e-mail",
                                  "telephone", "contact"}
            /\ CharStart(text_lower, j) >= from
            /\ CharStart(text_lower, j) + WordLen(text_lower[j]) <= to}

\* character offset of the first occurrence of the term in row i
TermStart(word, rows, i) == Find(LowerWord(word), Lower(RowText(rows[i])))

\* C20 (as stated): when the multiplicity phrase precedes the term in a row,
\* the row assigns FieldGroup if a cue word occurs within the 200 characters
\* preceding the term and CustomFieldGroup otherwise; a cue word only after
\* the term, or more than 200 characters before it, does not count.
C20_CueWithin200Before ==
    Step1Done =>
        LET found == entities_found(excel.rows)
        IN  \A c \in 1..Len(found) :
                \A i \in CueRows(found[c].word, excel.rows) :
                    CueRank(found[c].word, excel.rows, i) = 1 =>
                        LET start == TermStart(found[c].word, excel.rows, i)
                        IN  RoleOfRow(found[c].word, excel.rows, i) =
                                IF CueWordsWithin(excel.rows, i, start - 200, start) # {}
                                THEN "FieldGroup" ELSE "CustomFieldGroup"

\* C20 (amended): when the multiplicity phrase precedes the term in a row,
\* the row assigns FieldGroup if a cue word lies in the text of the row from
\* its start to 200 characters past the start of the first occurrence of the
\* term, and CustomFieldGroup otherwise: a cue word before the term counts at
\* any distance, one after the term counts within that cut, one beyond the
\* cut does not.
C20_CueUpTo200PastTermStart ==
    Step1Done =>
        LET found == entities_found(excel.rows)
        IN  \A c \in 1..Len(found) :
                \A i \in CueRows(found[c].word, excel.rows) :
                    CueRank(found[c].word, excel.rows, i) = 1 =>
                        LET start == TermStart(found[c].word, excel.rows, i)
                        IN  RoleOfRow(found[c].word, excel.rows, i) =
                                IF CueWordsWithin(excel.rows, i, 0, start + 200) # {}
                                THEN "FieldGroup" ELSE "CustomFieldGroup"

\* one term ends as FieldGroup by a cue word that only follows it, another by
\* a cue word more than 200 characters before it
C20_Witness ==
    /\ Step1Done
    /\ LET found == entities_found(excel.rows)
           Last(c, i) ==
               /\ i \in CueRows(found[c].word, excel.rows)
               /\ \A j \in CueRows(found[c].word, excel.rows) : j <= i
               /\ CueRank(found[c].word, excel.rows, i) = 1
               /\ found[c].type = "FieldGroup"
               /\ found[c].word # "Address"
       IN  /\ \E c \in 1..Len(found) : \E i \in 1..Len(excel.rows) :
                  /\ Last(c, i)
                  /\ CueWordsWithin(excel.rows, i, 0,
                                    TermStart(found[c].word, excel.rows, i)) = {}
           /\ \E c \in 1..Len(found) : \E i \in 1..Len(excel.rows) :
                  /\ Last(c, i)
                  /\ CueWordsWithin(excel.rows, i,
                                    TermStart(found[c].word, excel.rows, i) - 200,
                                    CharLen(RowText(excel.rows[i]))) = {}

(***************************************************************************)
(* C21: the final classification (rules 6 and 7)                           *)
(***************************************************************************)
FiveRoles == {"Person", "Organization", "Product", "FieldGroup", "CustomFieldGroup"}
FieldGroupTerms == {"address", "phone", "email", "telephone", "contact"}

\* C21: rules 6 and 7 apply only when no row containing the term triggered
\* one of rules 1-5: then the role is FieldGroup if the lowercased term is
\* exactly one of address, phone, email, telephone, contact, and Person
\* otherwise; when some row did trigger a rule the role is one a row assigned;
\* every retained candidate term, and every business entity of the step-1
\* document, has one of the five roles.
C21_FinalRoleOnlyWhenNoRuleFired ==
    Step1Done =>
        LET found == entities_found(excel.rows)
        IN  /\ \A c \in 1..Len(found) :
                   LET firing == FiringRows(found[c].word, excel.rows)
                   IN  /\ found[c].type \in FiveRoles
                       /\ firing = {} =>
                              found[c].type =
                                  IF LowerWord(found[c].word) \in FieldGroupTerms
                                  THEN "FieldGroup" ELSE "Person"
                       /\ firing # {} =>
                              \E i \in firing :
                                  found[c].type = RoleOfRow(found[c].word, excel.rows, i)
            /\ \A e \in 1..Len(step1_output.business_entities) :
                   step1_output.business_entities[e].type \in FiveRoles

\* one term is classified by rule 6, another by rule 7 and a third by a row
C21_Witness ==
    /\ Step1Done
    /\ LET found == entities_found(excel.rows)
           Unfired(c) == FiringRows(found[c].word, excel.rows) = {}
       IN  /\ \E c \in 1..Len(found) :
                  Unfired(c) /\ found[c].type = "FieldGroup"
           /\ \E c \in 1..Len(found) :
                  Unfired(c) /\ found[c].type = "Person"
           /\ \E c \in 1..Len(found) :
                  ~Unfired(c) /\ LowerWord(found[c].word) \notin FieldGroupTerms

(***************************************************************************)
(* C22: the supporting context of a term                                   *)
(***************************************************************************)
\* the rows containing the term whose text equals that of no earlier
\* containing row, in corpus order
RECURSIVE DistinctContainingRows(_, _, _)
DistinctContainingRows(word, rows, i) ==
    IF i > Len(rows) THEN <<>>
    ELSE LET rest == DistinctContainingRows(word, rows, i + 1)
             containing(k) == Contains(LowerWord(word), Lower(RowText(rows[k])))
         IN  IF /\ containing(i)
                /\ \A j \in 1..(i - 1) :
                       containing(j) => RowText(rows[j]) # RowText(rows[i])
             THEN <<i>> \o rest
             ELSE rest

\* C22: the context stored for a term is at most 3 excerpts of at most 200
\* characters each, one per containing row in corpus order, and rows whose
\* text is exactly equal contribute one excerpt only.
C22_ContextOneExcerptPerDistinctRow ==
    Step1Done =>
        LET found == entities_found(excel.rows)
        IN  \A c \in 1..Len(found) :
                LET from == DistinctContainingRows(found[c].word, excel.rows, 1)
                    context == found[c].context
                IN  /\ Len(context) = Min(Len(from), MaxContext)
                    /\ \A k \in 1..Len(context) :
                           /\ context[k].len <= ExcerptLen
                           /\ context[k] = Excerpt(RowText(excel.rows[from[k]]))

(***************************************************************************)
(* C23: the source pass                                                    *)
(***************************************************************************)
\* the rows whose text contains a keyword of the known system j
SourceRows(j, rows) ==
    {i \in 1..Len(rows) :
        \E k \in 1..Len(known_sources[j].v.keywords) :
            KeywordIn(known_sources[j].v.keywords[k], Lower(RowText(rows[i])))}

\* C23: the step-1 document has exactly one source-system finding for each
\* known system with a keyword occurring in the text of some row and none for
\* any other system; the context and the connection of the finding are those
\* of the first such row, whatever later rows say.
C23_OneFindingPerMatchedSystem ==
    Step1Done =>
        LET srcs == step1_output.source_systems
            Known == {known_sources[j].k : j \in 1..Len(known_sources)}
        IN  /\ \A f \in 1..Len(srcs) : srcs[f].name \in Known
            /\ \A j \in 1..Len(known_sources) :
                   LET matching == SourceRows(j, excel.rows)
                       findings == {f \in 1..Len(srcs) : srcs[f].name = known_sources[j].k}
                   IN  /\ matching = {} => findings = {}
                       /\ matching # {} =>
                              /\ Cardinality(findings) = 1
                              /\ \E i \in matching :
                                     /\ \A i2 \in matching : i <= i2
                                     /\ \A f \in findings :
                                            /\ srcs[f].context =
                                                   Excerpt(RowText(excel.rows[i]))
                                            /\ srcs[f].connection =
                                                   Connection(known_sources[j].v,
                                                              RowText(excel.rows[i]))

\* a system is matched by two rows with different texts and different
\* connections, while another known system is matched by no row
C23_Witness ==
    /\ Step1Done
    /\ \E j \in 1..Len(known_sources) :
           \E i, i2 \in SourceRows(j, excel.rows) :
               /\ i < i2
               /\ RowText(excel.rows[i]) # RowText(excel.rows[i2])
               /\ Connection(known_sources[j].v, RowText(excel.rows[i]))
                      # Connection(known_sources[j].v, RowText(excel.rows[i2]))
    /\ \E j \in 1..Len(known_sources) : SourceRows(j, excel.rows) = {}
    /\ Len(step1_output.source_systems) >= 2

(***************************************************************************)
(* C24: the connection of a source-system finding                          *)
(***************************************************************************)
\* the words of a configured connection type, in the letter case configured
ConnectionWords(conn_type) ==
    CASE conn_type = "SOAP API" -> <<"SOAP", "API">>
      [] conn_type = "Message Queue" -> <<"Message", "Queue">>
      [] OTHER -> <<conn_type>>

\* the first configured connection type that occurs in the text letter for
\* letter, or the first configured one when none does
LiteralConnection(source_info, combined) ==
    LET types == source_info.connection_types
        Hit(t) == KeywordIn(ConnectionWords(types[t]), combined)
    IN  IF \E t \in 1..Len(types) : Hit(t)
        THEN types[CHOOSE t \in 1..Len(types) :
                       Hit(t) /\ \A u \in 1..(t - 1) : ~Hit(u)]
        ELSE types[1]

\* C24: the connection of a source-system finding is the first, in configured
\* order, of the system's connection types that occurs in the text of the
\* matched row with the same letter case, and the first configured type when
\* none occurs so.
C24_FirstLiteralModeElseDefault ==
    Step1Done =>
        LET srcs == step1_output.source_systems
        IN  \A f \in 1..Len(srcs) :
                \A j \in 1..Len(known_sources) :
                    known_sources[j].k = srcs[f].name =>
                        \E i \in SourceRows(j, excel.rows) :
                            /\ \A i2 \in SourceRows(j, excel.rows) : i <= i2
                            /\ srcs[f].connection =
                                   LiteralConnection(known_sources[j].v,
                                                     RowText(excel.rows[i]))

(***************************************************************************)
(* C25: the template fields of the entity mapping                          *)
(***************************************************************************)
SuppressedFields == {"SSN", "TaxID"}

\* C25: whichever template is chosen, ootb_fields_used is the template's
\* standard fields minus the suppressed identity-sensitive fields: neither SSN
\* nor TaxID appears in it, for Person and for Organization alike.
C25_TemplateFieldsWithoutSensitiveOnes ==
    Step2Done =>
        \A m \in 1..Len(step2_output.entity_mappings) :
            LET mapping == step2_output.entity_mappings[m]
                Kept(f) == f \notin SuppressedFields
            IN  /\ mapping.ootb_entity \in {"Person", "Organization"}
                /\ mapping.ootb_fields_used =
                       SelectSeq(OOTB_ENTITIES[mapping.ootb_entity].standard_fields, Kept)

(***************************************************************************)
(* C26: step 3 on a consolidation document without entity mapping          *)
(***************************************************************************)
NoEntityMapping ==
    /\ step_outputs[2] # <<>>
    /\ step_outputs[2][1].entity_mappings = <<>>

\* C26: when step 3 is called with a consolidation document that has no
\* entity mapping it raises before it builds or writes a model document: main
\* reports the failure of step 3 and exits, no step-3 document and no step-3
\* file exists, and step 4 never runs.
C26_NoEntityMappingIsFatal ==
    (NoEntityMapping /\ pc # "step3") =>
        /\ pc = "exit1"
        /\ failed_step = 3
        /\ step_outputs[3] = <<>>
        /\ step_outputs[4] = <<>>
        /\ files \cap (StepFiles(3) \cup StepFiles(4)) = {}

\* step 3 was called with a document that has field-group mappings and
\* custom components but no entity mapping, and the run has ended
C26_Witness ==
    /\ NoEntityMapping
    /\ step_outputs[2][1].field_group_mappings # <<>>
    /\ step_outputs[2][1].custom_components # <<>>
    /\ pc = "exit1"
    /\ failed_step = 3

(***************************************************************************)
(* C30: the entity document assembled by step 3                            *)
(***************************************************************************)
Step3Done == step_outputs[3] # <<>>
step3_output == step_outputs[3][1]

\* C30: for every consolidation document with at least one entity mapping
\* step 3 assembles a document with exactly one entity; the field groups of
\* the entity have pairwise distinct names and exactly one of them is named
\* Identifier; that group has type OOTB, and when no step-2 field-group
\* mapping supplied it, it has the standard Identifier fields and the single
\* custom field SourceSystemKey.
C30_OneEntityDistinctGroupsOneIdentifier ==
    /\ (Step2Done /\ step2_output.entity_mappings # <<>>
            /\ pc \in {"step4", "complete"}) => Step3Done
    /\ Step3Done =>
           /\ step2_output.entity_mappings # <<>>
           /\ Len(step3_output.entities) = 1
           /\ LET groups == step3_output.entities[1].field_groups
                  mappings == step2_output.field_group_mappings
                  Supplied == \E m \in 1..Len(mappings) :
                                  mappings[m].ootb_field_group = "Identifier"
              IN  /\ \A g, h \in 1..Len(groups) :
                         groups[g].name = groups[h].name => g = h
                  /\ Cardinality({g \in 1..Len(groups) :
                                     groups[g].name = "Identifier"}) = 1
                  /\ \A g \in 1..Len(groups) :
                         groups[g].name = "Identifier" =>
                             /\ groups[g].type = "OOTB"
                             /\ ~Supplied =>
                                    /\ groups[g].custom = <<"SourceSystemKey">>
                                    /\ groups[g].ootb =
                                           OOTB_FIELD_GROUPS.Identifier.standard_fields

\* step 3 has assembled the entity from a document with two mappings of one
\* field group, no Identifier mapping, and custom field groups of which one
\* is named Identifier
C30_Witness ==
    /\ Step3Done
    /\ LET mappings == step2_output.field_group_mappings
           components == step2_output.custom_components
       IN  /\ \E m, n \in 1..Len(mappings) :
                  m < n /\ mappings[m].ootb_field_group = mappings[n].ootb_field_group
           /\ \A m \in 1..Len(mappings) : mappings[m].ootb_field_group # "Identifier"
           /\ \E c \in 1..Len(components) :
                  /\ components[c].type = "CustomFieldGroup"
                  /\ components[c].name = "Identifier"
           /\ \E c \in 1..Len(components) :
                  /\ components[c].type = "CustomFieldGroup"
                  /\ \E g \in 1..Len(step3_output.entities[1].field_groups) :
                         /\ step3_output.entities[1].field_groups[g].type = "Custom"
                         /\ step3_output.entities[1].field_groups[g].name
                                = components[c].name

(***************************************************************************)
(* C27: field groups in the consolidation document                         *)
(***************************************************************************)
\* C27: every business entity of role FieldGroup has an entry of
\* field_group_mappings for it, and every business entity of role
\* CustomFieldGroup has a custom component of type CustomFieldGroup with its
\* name: step 2 drops no discovered field group.
C27_NoFieldGroupDropped ==
    Step2Done =>
        LET entities == step1_output.business_entities
            mappings == step2_output.field_group_mappings
            components == step2_output.custom_components
        IN  \A e \in 1..Len(entities) :
                /\ entities[e].type = "FieldGroup" =>
                       \E m \in 1..Len(mappings) :
                           mappings[m].requirement = entities[e].name
                /\ entities[e].type = "CustomFieldGroup" =>
                       \E c \in 1..Len(components) :
                           /\ components[c].type = "CustomFieldGroup"
                           /\ components[c].name = entities[e].name

(***************************************************************************)
(* C28: master entities in the consolidated mapping                        *)
(***************************************************************************)
\* C28: every business entity of role Person, Organization or Product is
\* named in consolidated_requirements of the entity mapping; a run whose only
\* master entity is Product names Product there.
C28_MasterEntitiesConsolidated ==
    Step2Done =>
        LET entities == step1_output.business_entities
        IN  \A e \in 1..Len(entities) :
                entities[e].type \in {"Person", "Organization", "Product"} =>
                    /\ step2_output.entity_mappings # <<>>
                    /\ InSeq(entities[e].name,
                             step2_output.entity_mappings[1].consolidated_requirements)

(***************************************************************************)
(* C29: the custom fields of the entity mapping                            *)
(***************************************************************************)
\* the position of a display name in lexicographic order
SortPosition(name) == CHOOSE i \in 1..Len(SortedNames) : SortedNames[i] = name

\* s is in strictly ascending lexicographic order
Ascending(s) ==
    /\ \A i \in 1..Len(s) : InSeq(s[i], SortedNames)
    /\ \A i, j \in 1..Len(s) : i < j => SortPosition(s[i]) < SortPosition(s[j])

\* the names of s occur in t, in the same relative order
InOrderOf(s, t) ==
    \A i, j \in 1..Len(s) :
        i < j => \E a, b \in 1..Len(t) : a < b /\ t[a] = s[i] /\ t[b] = s[j]

\* C29: in the entity mapping custom_fields_needed is the sequence of the keys
\* of custom_fields_with_fr, same names in the same order and none twice, and
\* that order is the lexicographically sorted order in which step 1 emits the
\* attribute names.
C29_CustomFieldsAreTheSortedKeys ==
    Step2Done =>
        \A m \in 1..Len(step2_output.entity_mappings) :
            LET mapping == step2_output.entity_mappings[m]
                needed == mapping.custom_fields_needed
                emitted == step1_output.attributes[1].v
            IN  /\ Len(needed) = Len(mapping.custom_fields_with_fr)
                /\ \A i \in 1..Len(needed) :
                       needed[i] = mapping.custom_fields_with_fr[i].k
                /\ \A i, j \in 1..Len(needed) : needed[i] = needed[j] => i = j
                /\ Ascending(needed)
                /\ Ascending(emitted.custom)
                /\ Ascending(DictKeys(emitted.custom_with_fr))
                /\ InOrderOf(needed, emitted.custom)
                /\ \A i \in 1..Len(needed) : InSeq(needed[i], emitted.custom)

\* the mapping has two custom fields or more, which the attribute pass found
\* in another order than the sorted one
C29_Witness ==
    /\ Step2Done
    /\ Len(step2_output.entity_mappings[1].custom_fields_needed) >= 2
    /\ LET found == DictKeys(custom_attributes_with_fr(
                        step1_output.functional_requirements))
       IN  \E i, j \in 1..Len(found) :
               i < j /\ SortPosition(found[j]) < SortPosition(found[i])

====
